---------------------------- MODULE Spec2Model ----------------------------
(***************************************************************************)
(* A model of the statechart interpreter of packages/core/src/StateNode.ts *)
(* (StateNode.transition and everything it calls) and of State.ts.         *)
(*                                                                         *)
(* Representation                                                          *)
(*  - a state node is named by its id (a string); the configs of several  *)
(*    machines are in the table NodeDef, the constructed state nodes of    *)
(*    the machine in use are in idMap;                                     *)
(*  - a JS array or Set of state nodes is a sequence (a Set is a sequence  *)
(*    without duplicates, in insertion order, as JS iterates it);          *)
(*  - a StateValue relative to a node n is the sequence of the nodes of    *)
(*    the value tree below n, in pre-order, siblings in key order; the     *)
(*    keys of the value at n are the members whose parent is n;            *)
(*  - a HistoryValue is a function from nodes to StateValues, the empty    *)
(*    sequence standing for an undefined entry.                            *)
(***************************************************************************)
EXTENDS Integers, Sequences, FiniteSets, TLC

\* -------------------------------------------------------------- bounds
\* largest value of context.count that an assign may produce
MaxCount == 2
\* longest chain of microsteps followed inside one macrostep, each one the
\* nested call of transition for an event of the one before: the depth of
\* the call stack
MaxMicrosteps == 3

\* ------------------------------------------------------ program constants
NULL_EVENT == ""
WILDCARD == "*"
NoNode == ""

\* ------------------------------------------------------------- actions
\* value: what the expression of a Log action, or the action a Pure action
\* returns, has read from the context (NoValue: nothing)
NoValue == 0 - 1
ActionObject(type, name, event, delay) ==
    [type |-> type, name |-> name, event |-> event, delay |-> delay,
     value |-> NoValue]
Custom(name) == ActionObject("custom", name, "", 0)
assign(op) == ActionObject("xstate.assign", op, "", 0)
raise(ev) == ActionObject("xstate.raise", "", ev, 0)
send(ev, delay) == ActionObject("xstate.send", "", ev, delay)
cancel(sendId) == ActionObject("xstate.cancel", "", sendId, 0)
start(activity) == ActionObject("xstate.start", activity, "", 0)
stop(activity) == ActionObject("xstate.stop", activity, "", 0)
\* actions.log(expr): name stands for the expression
log(expr) == ActionObject("xstate.log", expr, "", 0)
\* actions.send(event, {delay: expr}): name stands for the delay expression
sendDelayed(ev, expr) == ActionObject("xstate.send", expr, ev, 0)
\* actions.pure(getActions): name stands for the function getActions
pure(name) == ActionObject("xstate.pure", name, "", 0)

\* ------------------------------------------------- machine definitions
\* a transition as written in a config: target keys, whether each target is
\* written with the leading delimiter, the `internal` property when declared
TransitionConfig(event, cond, target, rel, internal, actions) ==
    [event |-> event, cond |-> cond, target |-> target, rel |-> rel,
     internal |-> internal, actions |-> actions]
\* event: target
To(event, target) ==
    TransitionConfig(event, "", <<target>>, <<FALSE>>, "unset", <<>>)
\* event: { target, cond, actions }
ToIf(event, cond, target, actions) ==
    TransitionConfig(event, cond, <<target>>, <<FALSE>>, "unset", actions)
\* event: { cond, actions } (no target)
Do(event, cond, actions) ==
    TransitionConfig(event, cond, <<>>, <<>>, "unset", actions)
\* event: { target, internal: true, actions }
Internal(event, target, actions) ==
    TransitionConfig(event, "", <<target>>, <<FALSE>>, "true", actions)
\* event: '.target' (a child of the source, written with the delimiter)
ToChild(event, target) ==
    TransitionConfig(event, "", <<target>>, <<TRUE>>, "unset", <<>>)
\* event: undefined (a forbidden transition)
Forbidden(event) == TransitionConfig(event, "", <<>>, <<>>, "unset", <<>>)

StateNodeConfig(parent, type, initial, states, entry, exit, on) ==
    [parent |-> parent, type |-> type, initial |-> initial, states |-> states,
     entry |-> entry, exit |-> exit, on |-> on,
     after |-> <<>>, activities |-> <<>>, history |-> "false",
     target |-> <<>>, onDone |-> <<>>, strict |-> FALSE]
Atomic(parent, entry, exit, on) ==
    StateNodeConfig(parent, "atomic", NoNode, <<>>, entry, exit, on)
Plain(parent, on) == Atomic(parent, <<>>, <<>>, on)
Named(parent, id, on) ==
    Atomic(parent, <<Custom("enter_" \o id)>>, <<Custom("exit_" \o id)>>, on)
Final(parent) == StateNodeConfig(parent, "final", NoNode, <<>>, <<>>, <<>>, <<>>)
History(parent, kind, target) ==
    [StateNodeConfig(parent, "history", NoNode, <<>>, <<>>, <<>>, <<>>)
        EXCEPT !.history = kind, !.target = target]

\* the light machine: nested states, a transient state (stop), a guarded
\* eventless transition (wait), assigns, a delayed transition (yellow), a
\* forbidden transition (TIMER in walk, as in pedestrianStates), an
\* internal transition to the source itself (POWER_OUTAGE in red) and one
\* to a child (HOLD), an external transition to the source itself
\* (RESTART) and one to the parent of the source (UP in walk)
LightConfig ==
    [light |-> StateNodeConfig(NoNode, "compound", "green",
                  <<"green", "yellow", "red">>, <<>>, <<>>, <<>>),
     green |-> Named("light", "green",
                  <<To("TIMER", "yellow"), To("POWER_OUTAGE", "red"),
                    Do("INC", "ltMax", <<assign("inc")>>)>>),
     yellow |-> [Named("light", "yellow",
                  <<To("TIMER", "red"), To("POWER_OUTAGE", "red")>>)
                  EXCEPT !.after = <<[delay |-> 1000, target |-> "red"]>>],
     red |-> [StateNodeConfig("light", "compound", "walk",
                  <<"walk", "wait", "stop">>,
                  <<Custom("enter_red")>>, <<Custom("exit_red")>>,
                  <<To("TIMER", "green"),
                    Internal("POWER_OUTAGE", "red", <<Custom("outage")>>),
                    ToChild("HOLD", "wait"),
                    To("RESTART", "red")>>)
                  EXCEPT !.activities = <<"walkSign">>],
     walk |-> Named("red", "walk", <<To("PED_COUNTDOWN", "wait"),
                                     Forbidden("TIMER"), To("UP", "red")>>),
     wait |-> Named("red", "wait",
                  <<ToIf(NULL_EVENT, "countPos", "stop", <<>>),
                    Do("INC", "ltMax", <<assign("inc")>>),
                    To("PED_COUNTDOWN", "walk")>>),
     stop |-> Named("red", "stop", <<To(NULL_EVENT, "green")>>)]

\* the queue machine: raised events over several microsteps, a round trip
\* (q0 -> bounce -> q0) without any action, and a wildcard transition
\* written before a transition for a named event (qb), and a node with a
\* wildcard transition and an eventless transition whose guard fails (gate),
\* a guard without implementation (TRAP1), and guards that throw in the
\* microstep of an eventless transition (TRAP2) and of a raised event (TRAP3)
QueueConfig ==
    [q |-> StateNodeConfig(NoNode, "compound", "q0",
              <<"q0", "bounce", "q1", "q2", "q3a", "q3b", "qa", "qb", "gate",
                "trap">>,
              <<>>, <<>>, <<>>),
     q0 |-> Plain("q", <<ToIf("GO", "", "q1", <<raise("R1"), raise("R2")>>),
                         To("PING", "bounce"),
                         ToIf("HOP", "", "bounce", <<raise("R1")>>),
                         To("KNOCK", "gate"),
                         ToIf("TRAP1", "missing", "q1", <<>>),
                         To("TRAP2", "trap"),
                         ToIf("TRAP3", "", "qa", <<raise("RX")>>)>>),
     trap |-> Plain("q", <<ToIf(NULL_EVENT, "boom", "q0", <<>>)>>),
     gate |-> Plain("q", <<ToIf(NULL_EVENT, "countPos", "qa", <<>>),
                           To(WILDCARD, "q0")>>),
     bounce |-> Plain("q", <<To(NULL_EVENT, "q0"), To("R1", "q2")>>),
     q1 |-> Plain("q", <<ToIf("R1", "", "q2", <<raise("R3")>>)>>),
     q2 |-> Plain("q", <<To("R2", "q3a"), To("R3", "q3b")>>),
     q3a |-> Plain("q", <<To("R3", "qa")>>),
     q3b |-> Plain("q", <<To("R2", "qb")>>),
     qa |-> Plain("q", <<To("RESET", "q0"), ToIf("RX", "boom", "q0", <<>>)>>),
     qb |-> Plain("q", <<To(WILDCARD, "qa"), To("RESET", "q0")>>)]

\* the history machine: a compound state with a shallow and a deep history
\* child, a nested compound child, a macrostep of two microsteps (SKIP),
\* and a state (standby) reached without going through the compound state
HistoryConfig ==
    [h |-> StateNodeConfig(NoNode, "compound", "off", <<"off", "on", "standby">>,
              <<>>, <<>>, <<>>),
     off |-> Plain("h", <<To("ON", "on"), To("ON_H", "hist"),
                          To("ON_D", "deep"), To("SLEEP", "standby")>>),
     standby |-> Plain("h", <<To("ON_H", "hist"), To("ON_D", "deep")>>),
     on |-> StateNodeConfig("h", "compound", "first",
              <<"hist", "deep", "first", "second", "third">>,
              <<>>, <<>>, <<To("OFF", "off")>>),
     hist |-> History("on", "shallow", <<>>),
     deep |-> History("on", "deep", <<"third">>),
     first |-> Plain("on", <<To("NEXT", "second"),
                             ToIf("SKIP", "", "second", <<raise("ADV")>>)>>),
     second |-> StateNodeConfig("on", "compound", "s1", <<"s1", "s2">>,
              <<>>, <<>>, <<To("ADV", "third"), To("NEXT", "third")>>),
     s1 |-> Plain("second", <<To("SUB", "s2")>>),
     s2 |-> Plain("second", <<To("SUB", "s1")>>),
     third |-> Plain("on", <<To("NEXT", "first")>>)]

\* the parallel machine (test/strict.test.ts parallelMachine, put below a
\* compound root): regions that take transitions for the same event, also
\* to targets outside the parallel state, a transition without target on
\* a region (NOTE), an event that only the second region handles (FLIP),
\* and a transition with two targets of which one is written with the
\* leading delimiter (MIX: ['.a.a2', '#b2'])
ParallelConfig ==
    [w |-> StateNodeConfig(NoNode, "compound", "p", <<"p", "x", "y">>,
              <<>>, <<>>, <<>>),
     p |-> StateNodeConfig("w", "parallel", NoNode, <<"a", "b">>,
              <<Custom("enter_p")>>, <<Custom("exit_p")>>,
              <<TransitionConfig("MIX", "", <<"a2", "b2">>, <<TRUE, FALSE>>,
                                 "unset", <<>>)>>),
     a |-> StateNodeConfig("p", "compound", "a1", <<"a1", "a2">>,
              <<Custom("enter_a")>>, <<Custom("exit_a")>>,
              <<Do("NOTE", "", <<Custom("note")>>)>>),
     a1 |-> Named("a", "a1", <<ToIf("CHANGE", "", "a2", <<Custom("change_a1")>>),
                               To("ESC", "a2"), To("BOTH", "x")>>),
     a2 |-> [Named("a", "a2", <<>>) EXCEPT !.activities = <<"blink">>],
     b |-> StateNodeConfig("p", "compound", "b1", <<"b1", "b2">>,
              <<Custom("enter_b")>>, <<Custom("exit_b")>>, <<>>),
     b1 |-> Named("b", "b1", <<ToIf("CHANGE", "", "b2", <<Custom("change_b1")>>),
                               To("ESC", "x"), To("BOTH", "y"),
                               To("FLIP", "b2")>>),
     b2 |-> Named("b", "b2", <<ToIf("CHANGE", "", "b1", <<Custom("change_b2")>>)>>),
     x |-> Named("w", "x", <<To("BACK", "p")>>),
     y |-> Named("w", "y", <<To("BACK", "p")>>)]

\* the counter machine: assigns that do not commute among the exit, the
\* transition and the entry actions of a microstep, a raised event whose
\* guard reads the context, and a Pure action that returns an assign
CounterConfig ==
    [c |-> StateNodeConfig(NoNode, "compound", "c0", <<"c0", "c1", "c2">>,
              <<>>, <<>>, <<>>),
     c0 |-> Atomic("c", <<>>, <<assign("inc_c0")>>,
              <<ToIf("GO", "", "c1",
                     <<log("count"), assign("double"), raise("MORE"),
                       pure("report"), sendDelayed("TICK", "count10")>>)>>),
     c1 |-> Atomic("c", <<assign("inc_c1")>>, <<>>,
              <<ToIf("MORE", "is3", "c2", <<assign("double")>>)>>),
     c2 |-> Atomic("c", <<assign("inc_c2")>>, <<>>,
              <<ToIf("RESET", "", "c0", <<assign("reset")>>),
                Do("PURE", "", <<pure("thenReset")>>)>>)]

\* the done machine, a strict machine: a parallel state whose regions each
\* reach a final state, separately (FIN1, FIN2) or in one microstep (FIN),
\* with onDone transitions on the parallel state and on one region
DoneConfig ==
    [d |-> [StateNodeConfig(NoNode, "compound", "work", <<"work", "finished">>,
              <<>>, <<>>, <<>>) EXCEPT !.strict = TRUE],
     work |-> [StateNodeConfig("d", "parallel", NoNode, <<"r1", "r2">>,
                  <<>>, <<>>, <<>>)
                  EXCEPT !.onDone = <<ToIf("", "", "finished", <<Custom("all_done")>>)>>],
     r1 |-> StateNodeConfig("work", "compound", "r1a", <<"r1a", "r1f">>,
              <<>>, <<>>, <<>>),
     r1a |-> Plain("r1", <<To("FIN1", "r1f"), To("FIN", "r1f")>>),
     r1f |-> Final("r1"),
     r2 |-> [StateNodeConfig("work", "compound", "r2a", <<"r2a", "r2f">>,
                <<>>, <<>>, <<>>)
                EXCEPT !.onDone = <<Do("", "", <<Custom("r2_done")>>)>>],
     r2a |-> Plain("r2", <<To("FIN2", "r2f"), To("FIN", "r2f")>>),
     r2f |-> Final("r2"),
     finished |-> Plain("d", <<To("RESET", "work")>>)]

\* counterMachine of useService.test.tsx: INC is a transition without
\* target that assigns count + 1
counterMachine ==
    [counter |-> StateNodeConfig(NoNode, "compound", "active", <<"active">>,
                    <<>>, <<>>, <<>>),
     active |-> Plain("counter",
                    <<Do("INC", "", <<assign("count_plus_1")>>),
                      Do("SOMETHING", "", <<Custom("doSomething")>>)>>)]

\* the loop machine: an eventless transition that ends the macrostep (HOP),
\* an eventless cycle between two states (CYCLE), an unguarded eventless
\* transition without target (SPIN) and a transition that raises the event
\* it is taken for (ECHO)
LoopConfig ==
    [loop |-> StateNodeConfig(NoNode, "compound", "idle",
                 <<"idle", "hop", "ping", "pong", "spin", "echo">>,
                 <<>>, <<>>, <<>>),
     idle |-> Plain("loop", <<To("HOP", "hop"), To("CYCLE", "ping"),
                              To("SPIN", "spin"),
                              ToIf("ECHO", "", "echo", <<raise("AGAIN")>>)>>),
     hop |-> Plain("loop", <<To(NULL_EVENT, "idle")>>),
     ping |-> Plain("loop", <<To(NULL_EVENT, "pong")>>),
     pong |-> Plain("loop", <<To(NULL_EVENT, "ping")>>),
     spin |-> Plain("loop", <<Do(NULL_EVENT, "", <<Custom("tick")>>)>>),
     echo |-> Plain("loop", <<ToIf("AGAIN", "", "echo", <<raise("AGAIN")>>)>>)]

NodeDef ==
    LightConfig @@ QueueConfig @@ HistoryConfig @@ ParallelConfig @@ CounterConfig
        @@ DoneConfig @@ counterMachine @@ LoopConfig
Machines == {n \in DOMAIN NodeDef : NodeDef[n].parent = NoNode}
\* the events sent to each machine; no transition is declared for UNKNOWN
Events ==
    [light |-> {"TIMER", "POWER_OUTAGE", "PED_COUNTDOWN", "INC", "HOLD",
                "RESTART", "UP", "UNKNOWN"},
     q |-> {"GO", "PING", "HOP", "RESET", "R2", "KNOCK", "TRAP1", "TRAP2",
            "TRAP3", "UNKNOWN"},
     h |-> {"ON", "ON_H", "ON_D", "OFF", "NEXT", "SKIP", "SUB", "SLEEP",
            "UNKNOWN"},
     w |-> {"CHANGE", "ESC", "BOTH", "BACK", "NOTE", "FLIP", "MIX", "UNKNOWN"},
     c |-> {"GO", "RESET", "PURE", "UNKNOWN"},
     d |-> {"FIN1", "FIN2", "FIN", "RESET", "done.state.work", "UNKNOWN"},
     counter |-> {"INC", "SOMETHING", "UNKNOWN"},
     loop |-> {"HOP", "CYCLE", "SPIN", "ECHO", "UNKNOWN"}]


\* ------------------------------------------------------ sequence helpers
Range(s) == {s[i] : i \in 1..Len(s)}
has(iterable, item) == \E i \in 1..Len(iterable) : iterable[i] = item
RECURSIVE flatten(_)
flatten(ss) == IF ss = <<>> THEN <<>> ELSE Head(ss) \o flatten(Tail(ss))
\* new Set(array), add(item): insertion order, first occurrence kept
add(set, item) == IF has(set, item) THEN set ELSE Append(set, item)
RECURSIVE addAll(_, _)
addAll(set, items) ==
    IF items = <<>> THEN set ELSE addAll(add(set, Head(items)), Tail(items))
NewSet(items) == addAll(<<>>, items)
\* `const name = value; body`: the body with the name bound to the value
With(value, Body(_)) == Body(value)
\* Array.prototype.map
Map(s, Op(_)) == [i \in 1..Len(s) |-> Op(s[i])]
IndexOf(s, item) == CHOOSE i \in 1..Len(s) : s[i] = item

\* ------------------------------------------------- the definition tree
\* actions.after(delayRef, id): the name of the synthesized event
after(delayRef, id) == "xstate.after(" \o ToString(delayRef) \o ")#" \o id
\* StateNode.formatTransition
formatTransition(n, transitionConfig) ==
    [source |-> n,
     eventType |-> transitionConfig.event,
     cond |-> transitionConfig.cond,
     target |-> transitionConfig.target,
     internal |-> IF transitionConfig.internal # "unset"
                  THEN transitionConfig.internal = "true"
                  ELSE IF transitionConfig.target # <<>>
                  THEN \E i \in 1..Len(transitionConfig.rel) : transitionConfig.rel[i]
                  ELSE TRUE,
     actions |-> transitionConfig.actions]
\* StateNode.getDelayedTransitions: the transitions of config.after
getDelayedTransitions(n, config) ==
    Map(config.after,
        LAMBDA d : formatTransition(n,
            TransitionConfig(after(d.delay, n), "", <<d.target>>, <<FALSE>>,
                             "unset", <<>>)))
\* `doneConfig`: the transitions of config.onDone, for the done event of n
doneConfig(n, config) ==
    Map(config.onDone, LAMBDA t : [t EXCEPT !.event = "done.state." \o n])
\* a formatTransitions that leaves out the forbidden transitions
formatTransitionsAllowed(n, config) ==
    Map(doneConfig(n, config)
          \o SelectSeq(config.on, LAMBDA t : t # Forbidden(t.event)),
        LAMBDA t : formatTransition(n, t))
    \o getDelayedTransitions(n, config)
\* StateNode.formatTransitions: the onDone transitions first, the wildcard
\* transitions after the others, the delayed transitions last
formatTransitions(n, config) ==
    Map(doneConfig(n, config)
          \o SelectSeq(config.on, LAMBDA t : t.event # WILDCARD)
          \o SelectSeq(config.on, LAMBDA t : t.event = WILDCARD),
        LAMBDA t : formatTransition(n, t))
    \o getDelayedTransitions(n, config)
\* document order: the constructor's dfs numbering from the root
RECURSIVE dfs(_, _)
dfs(configs, n) ==
    <<n>> \o flatten(Map(configs[n].states, LAMBDA c : dfs(configs, c)))
\* new StateNode(config) for the nodes ids[i], ids[i+1], ... of a machine:
\* a node keeps its config, its number in document order and the
\* transitions that formatTransitions computes when they are first asked for
RECURSIVE StateNode(_, _, _)
StateNode(configs, ids, i) ==
    With(ids[i] :> (configs[ids[i]] @@
                    [order |-> i - 1,
                     transitions |-> formatTransitions(ids[i], configs[ids[i]])]),
         LAMBDA node : IF i = Len(ids) THEN node
                       ELSE node @@ StateNode(configs, ids, i + 1))
\* Machine(config): the state nodes of the machine, by id
Machine(configs, root) == StateNode(configs, dfs(configs, root), 1)

\* machine.idMap: the state nodes by id
VARIABLE idMap
Nodes == DOMAIN idMap
parent(n) == idMap[n].parent
type(n) == idMap[n].type
\* stateUtils.getChildren: the child nodes in the order of config.states
getChildren(n) == idMap[n].states
isLeafNode(n) == type(n) \in {"atomic", "final"}
RECURSIVE machineOf(_)
machineOf(n) == IF parent(n) = NoNode THEN n ELSE machineOf(parent(n))
\* the proper ancestors of n, nearest first
RECURSIVE ancestors(_)
ancestors(n) ==
    IF parent(n) = NoNode THEN <<>> ELSE <<parent(n)>> \o ancestors(parent(n))
isDescendant(n, m) == has(ancestors(n), m)
order == [n \in Nodes |-> idMap[n].order]
\* StateNode._transient: the config declares an eventless transition
transient(n) == \E i \in 1..Len(idMap[n].on) : idMap[n].on[i].event = NULL_EVENT

\* ------------------------------------------------------- state values
\* keys(stateValue) of the value v at node n
keys(v, n) == SelectSeq(v, LAMBDA c : parent(c) = n)
\* stateValue[key]: the value below the child c
sub(v, c) == SelectSeq(v, LAMBDA d : isDescendant(d, c))
\* StateNode.initialStateValue
RECURSIVE initialStateValue(_)
initialStateValue(n) ==
    IF type(n) = "parallel"
    THEN flatten(Map(SelectSeq(getChildren(n), LAMBDA c : type(c) # "history"),
                     LAMBDA c : <<c>> \o initialStateValue(c)))
    ELSE IF idMap[n].initial # NoNode
    THEN <<idMap[n].initial>> \o initialStateValue(idMap[n].initial)
    ELSE <<>>
\* State.toStrings(stateValue, delimiter) of the value v below node n; the
\* value is a string when the child chosen below a compound node is a leaf
RECURSIVE toStrings(_, _, _)
toStrings(n, v, delimiter) ==
    IF type(n) = "compound" /\ keys(v, n) # <<>> /\ isLeafNode(keys(v, n)[1])
    THEN <<keys(v, n)[1]>>
    ELSE keys(v, n) \o
         flatten(Map(keys(v, n), LAMBDA key :
            Map(toStrings(key, sub(v, key), delimiter),
                LAMBDA str : key \o delimiter \o str)))
\* a resolve that fills in an empty value only
resolveEmpty(n, v) == IF v = <<>> THEN initialStateValue(n) ELSE v
\* StateNode.resolve(stateValue) on node n; the value of a key that is
\* written as a string or as an empty object is the empty sequence
RECURSIVE resolve(_, _)
resolve(n, v) ==
    IF v = <<>> THEN initialStateValue(n)
    ELSE IF type(n) = "parallel"
    THEN flatten(Map(SelectSeq(getChildren(n), LAMBDA c : type(c) # "history"),
            LAMBDA c : <<c>> \o resolve(c, IF has(v, c) /\ sub(v, c) # <<>>
                                             THEN sub(v, c)
                                             ELSE initialStateValue(c))))
    ELSE IF type(n) = "compound"
    THEN flatten(Map(keys(v, n), LAMBDA k : <<k>> \o resolve(k, sub(v, k))))
    ELSE v
\* utils.toStatePaths, each path named by the node it ends in
toStatePaths(v) == SelectSeq(v, LAMBDA c : \A i \in 1..Len(v) : parent(v[i]) # c)
\* StateNode.initialStateNodes
initialStateNodes(n) ==
    IF isLeafNode(n) THEN <<n>>
    ELSE IF type(n) = "compound" /\ idMap[n].initial = NoNode THEN <<n>>
    ELSE toStatePaths(initialStateValue(n))
\* StateNode.getStateNodes(stateValue) on node n
RECURSIVE getStateNodes(_, _)
getStateNodes(n, v) ==
    keys(v, n) \o flatten(Map(keys(v, n), LAMBDA k : getStateNodes(k, v)))
\* State.stateValuesEqual (the order of the keys is irrelevant)
stateValuesEqual(a, b) == Range(a) = Range(b)

\* --------------------------------------------------------- stateUtils
\* getAdjList(configuration).has(n) and .get(n)
adjHas(configuration, n) ==
    has(configuration, n) \/ \E i \in 1..Len(configuration) : parent(configuration[i]) = n
adjGet(configuration, n) == SelectSeq(configuration, LAMBDA c : parent(c) = n)
\* "add all ancestors": the loop runs over the Set while it grows
RECURSIVE addAncestorChain(_, _)
addAncestorChain(configuration, m) ==
    IF m = NoNode \/ has(configuration, m) THEN configuration
    ELSE addAncestorChain(Append(configuration, m), parent(m))
RECURSIVE addAncestors(_, _)
addAncestors(configuration, i) ==
    IF i > Len(configuration) THEN configuration
    ELSE addAncestors(addAncestorChain(configuration, parent(configuration[i])), i + 1)
\* the nodes added for a node without an active child
fill(prev, n) == IF adjHas(prev, n) THEN adjGet(prev, n) ELSE initialStateNodes(n)
RECURSIVE addRegions(_, _, _)
addRegions(configuration, prev, children) ==
    IF children = <<>> THEN configuration
    ELSE LET child == Head(children) IN
         IF type(child) = "history" \/ has(configuration, child)
         THEN addRegions(configuration, prev, Tail(children))
         ELSE addRegions(addAll(Append(configuration, child), fill(prev, child)),
                         prev, Tail(children))
\* "add descendants": adj is the adjacency list taken before the loop
RECURSIVE addDescendants(_, _, _, _)
addDescendants(configuration, prev, adj, i) ==
    IF i > Len(configuration) THEN configuration
    ELSE LET s == configuration[i] IN
         addDescendants(
            IF type(s) = "compound" /\ adjGet(adj, s) = <<>>
            THEN addAll(configuration, fill(prev, s))
            ELSE IF type(s) = "parallel"
            THEN addRegions(configuration, prev, getChildren(s))
            ELSE configuration,
            prev, adj, i + 1)
getConfiguration(prevStateNodes, stateNodes) ==
    LET withAncestors == addAncestors(NewSet(stateNodes), 1)
    IN  addAncestors(addDescendants(withAncestors, NewSet(prevStateNodes),
                                    withAncestors, 1), 1)
RECURSIVE getValueFromAdj(_, _)
getValueFromAdj(baseNode, configuration) ==
    LET childStateNodes == adjGet(configuration, baseNode) IN
    IF childStateNodes = <<>> THEN <<>>
    ELSE IF type(baseNode) = "compound" /\ isLeafNode(childStateNodes[1])
    THEN <<childStateNodes[1]>>
    ELSE flatten(Map(childStateNodes,
                     LAMBDA csn : <<csn>> \o getValueFromAdj(csn, configuration)))
getValue(rootNode, configuration) ==
    getValueFromAdj(rootNode, getConfiguration(<<rootNode>>, configuration))
RECURSIVE isInFinalState(_, _)
isInFinalState(configuration, n) ==
    IF type(n) = "compound"
    THEN \E i \in 1..Len(getChildren(n)) :
            type(getChildren(n)[i]) = "final" /\ has(configuration, getChildren(n)[i])
    ELSE IF type(n) = "parallel"
    THEN \A i \in 1..Len(getChildren(n)) : isInFinalState(configuration, getChildren(n)[i])
    ELSE FALSE


\* ------------------------------------------------------- transitions
\* StateNode.transitions
transitions == [n \in Nodes |-> idMap[n].transitions]
\* candidates among which the wildcard matches every event name
getCandidatesWild(n, eventName) ==
    SelectSeq(transitions[n],
        LAMBDA t : t.eventType = eventName \/ t.eventType = WILDCARD)
\* StateNode.getCandidates
getCandidates(n, eventName) ==
    SelectSeq(transitions[n],
        LAMBDA t : IF eventName = NULL_EVENT
                   THEN t.eventType = eventName
                   ELSE t.eventType = eventName \/ t.eventType = WILDCARD)
\* the nodes whose cache of transitions is followed: filling it has an
\* effect only on a node with delayed transitions (onEntry and onExit grow)
\* and on the machine itself (_init is skipped)
Cached == {n \in Nodes : idMap[n].after # <<>> \/ idMap[n].parent = NoNode}
\* onEntry and onExit: getDelayedTransitions pushes the send and the cancel
\* of a delayed transition when the node's transitions are first computed;
\* initialized is the set of nodes whose __cache.transitions is filled
onEntry(n, initialized) ==
    idMap[n].entry \o
    (IF n \in initialized
     THEN Map(idMap[n].after, LAMBDA d : send(after(d.delay, n), d.delay))
     ELSE <<>>)
onExit(n, initialized) ==
    idMap[n].exit \o
    (IF n \in initialized
     THEN Map(idMap[n].after, LAMBDA d : cancel(after(d.delay, n)))
     ELSE <<>>)
\* the names of options.guards; the guard `boom` throws when it is called
Guards == {"ltMax", "countPos", "is3", "boom"}
\* StateNode.evaluateGuard throws: the guard has no implementation, or the
\* guard itself throws
guardThrows(cond) == cond \notin Guards \/ cond = "boom"
\* StateNode.evaluateGuard returns
evaluateGuard(cond, context) ==
    CASE cond = "ltMax" -> context.count < MaxCount
      [] cond = "countPos" -> context.count > 0
      [] cond = "is3" -> context.count = 3
      [] OTHER -> FALSE

\* ----------------------------------------------------------- history
NoHistoryValue == [n \in Nodes |-> <<>>]
\* StateNode.historyValue(relativeStateValue), written into the table hv
RECURSIVE historyValueInto(_, _, _)
historyValueInto(hv, n, relativeStateValue) ==
    IF getChildren(n) = <<>> THEN hv
    ELSE LET current == IF relativeStateValue # <<>> THEN relativeStateValue
                        ELSE initialStateValue(n)
             children == SelectSeq(getChildren(n), LAMBDA c : type(c) # "history")
             step(acc, c) ==
                historyValueInto(acc, c,
                    IF sub(current, c) # <<>> THEN sub(current, c)
                    ELSE initialStateValue(c))
             RECURSIVE over(_, _)
             over(acc, cs) ==
                IF cs = <<>> THEN acc ELSE over(step(acc, Head(cs)), Tail(cs))
         IN  over([hv EXCEPT ![n] = current], children)
historyValue(machine, stateValue) ==
    historyValueInto(NoHistoryValue, machine, stateValue)
\* utils.updateHistoryStates
RECURSIVE updateHistoryStates(_, _, _, _)
updateHistoryStates(new, hist, n, stateValue) ==
    LET children == SelectSeq(getChildren(n), LAMBDA c : type(c) # "history")
        step(acc, c) ==
            IF hist[c] = <<>> THEN acc
            ELSE LET subStateValue == IF sub(stateValue, c) # <<>>
                                      THEN sub(stateValue, c) ELSE hist[c]
                 IN updateHistoryStates([acc EXCEPT ![c] = subStateValue],
                                        hist, c, subStateValue)
        RECURSIVE over(_, _)
        over(acc, cs) ==
            IF cs = <<>> THEN acc ELSE over(step(acc, Head(cs)), Tail(cs))
    IN  over(new, children)
\* utils.updateHistoryValue
updateHistoryValue(hist, stateValue) ==
    updateHistoryStates([NoHistoryValue EXCEPT ![machineOf(stateValue[1])] = stateValue],
                        hist, machineOf(stateValue[1]), stateValue)
\* StateNode.resolveHistory; hasHistoryValue is false for an undefined
\* historyValue
resolveHistory(n, hasHistoryValue, hv) ==
    IF type(n) # "history" THEN <<n>>
    ELSE IF ~hasHistoryValue
    THEN IF idMap[n].target # <<>> THEN idMap[n].target
         ELSE initialStateNodes(parent(n))
    ELSE LET subHistoryValue == hv[parent(n)] IN
         IF Len(subHistoryValue) = 1 THEN subHistoryValue
         ELSE Map(toStatePaths(subHistoryValue),
                  LAMBDA leaf :
                     IF idMap[n].history = "deep" THEN leaf
                     ELSE CHOOSE c \in Range(subHistoryValue) :
                            parent(c) = parent(n) /\ (c = leaf \/ isDescendant(leaf, c)))
\* StateNode.getRelativeStateNodes (resolve = true)
getRelativeStateNodes(n, hasHistoryValue, hv) ==
    IF type(n) = "history" THEN resolveHistory(n, hasHistoryValue, hv)
    ELSE initialStateNodes(n)


\* ------------------------------------------------ transition selection
\* a StateTransition; def is false for `undefined`; touched is the set of
\* nodes whose transitions were read (and so computed) along the way
StateTransition(trs, entrySet, exitSet, configuration, actions, touched) ==
    [def |-> TRUE, transitions |-> trs, entrySet |-> entrySet,
     exitSet |-> exitSet, configuration |-> configuration,
     actions |-> actions, touched |-> touched, threw |-> FALSE]
NoStateTransition(touched) ==
    [def |-> FALSE, transitions |-> <<>>, entrySet |-> <<>>, exitSet |-> <<>>,
     configuration |-> <<>>, actions |-> <<>>, touched |-> touched,
     threw |-> FALSE]
\* the selection of a transition threw ("Unable to evaluate guard ...")
Threw(touched) == [NoStateTransition(touched) EXCEPT !.threw = TRUE]
\* StateNode.escapes: childStateNode.escapes(n)
escapes(childStateNode, n) == childStateNode # n /\ ~isDescendant(childStateNode, n)
\* StateNode.nodesFromChild
RECURSIVE pathUpTo(_, _)
pathUpTo(marker, n) ==
    IF marker = NoNode \/ marker = n THEN <<>>
    ELSE <<marker>> \o pathUpTo(parent(marker), n)
nodesFromChild(n, childStateNode) ==
    IF escapes(childStateNode, n) THEN <<>>
    ELSE Append(pathUpTo(childStateNode, n), n)
\* a selection that takes the first candidate whatever its guard says
enabledCandidatesUnguarded(n, context, eventName) == getCandidates(n, eventName)
\* guardPassed of a candidate whose guard does not throw
guardPassed(t, context) ==
    t.cond = "" \/ (~guardThrows(t.cond) /\ evaluateGuard(t.cond, context))
\* the first candidate whose guard passes (the loop of StateNode.next)
enabledCandidates(n, context, eventName) ==
    SelectSeq(getCandidates(n, eventName), LAMBDA t : guardPassed(t, context))
\* the loop of StateNode.next reaches a candidate whose guard throws
guardThrown(candidates, context) ==
    \E i \in 1..Len(candidates) :
        /\ candidates[i].cond # "" /\ guardThrows(candidates[i].cond)
        /\ \A j \in 1..(i - 1) : ~guardPassed(candidates[j], context)
\* a next that leaves and enters the source node whatever the target is
nextReentering(n, state, eventName) ==
    With(enabledCandidates(n, state.context, eventName), LAMBDA enabled :
    IF enabled = <<>> THEN NoStateTransition({n} \cap Cached)
    ELSE StateTransition(<<enabled[1]>>, <<n>>, <<n>>, <<n>>,
                         enabled[1].actions, {n} \cap Cached))
\* a next that takes every transition with a target for an external one
nextExternal(n, state, eventName) ==
    With(enabledCandidates(n, state.context, eventName), LAMBDA enabled :
    IF enabled = <<>> THEN NoStateTransition({n} \cap Cached)
    ELSE IF enabled[1].target = <<>>
    THEN StateTransition(<<enabled[1]>>, <<>>, <<>>, <<n>>,
                         enabled[1].actions, {n} \cap Cached)
    ELSE With(flatten(Map(enabled[1].target,
                LAMBDA t : getRelativeStateNodes(t, state.hasHistoryValue,
                                                 state.historyValue))),
              LAMBDA allNextStateNodes :
         StateTransition(<<enabled[1]>>,
            flatten(Map(allNextStateNodes, LAMBDA c : nodesFromChild(n, c))),
            <<n>>, allNextStateNodes, enabled[1].actions, {n} \cap Cached)))
\* StateNode.next
next(n, state, eventName) ==
    With(enabledCandidates(n, state.context, eventName), LAMBDA enabled :
    IF guardThrown(getCandidates(n, eventName), state.context)
    THEN Threw({n} \cap Cached)
    ELSE IF enabled = <<>> THEN NoStateTransition({n} \cap Cached)
    ELSE
    With(enabled[1], LAMBDA selectedTransition :
    With(flatten(Map(selectedTransition.target,
            LAMBDA t : getRelativeStateNodes(t, state.hasHistoryValue,
                                             state.historyValue))),
         LAMBDA allNextStateNodes :
    IF selectedTransition.target = <<>>
    THEN StateTransition(<<selectedTransition>>, <<>>, <<>>, <<n>>,
                         selectedTransition.actions, {n} \cap Cached)
    ELSE StateTransition(<<selectedTransition>>,
            IF selectedTransition.internal THEN <<>>
            ELSE flatten(Map(allNextStateNodes, LAMBDA c : nodesFromChild(n, c))),
            IF selectedTransition.internal THEN <<>> ELSE <<n>>,
            allNextStateNodes, selectedTransition.actions,
            {n} \cap Cached))))
\* `if (!next || !next.transitions.length) return this.next(state, _event)`
orNext(n, nxt, state, eventName) ==
    IF nxt.threw \/ (nxt.def /\ nxt.transitions # <<>>) THEN nxt
    ELSE [next(n, state, eventName) EXCEPT !.touched = @ \cup nxt.touched]
\* the merge of StateNode.transitionParallelNode
mergeRegions(n, regions, state, eventName) ==
    With(SelectSeq(regions, LAMBDA st : st.def), LAMBDA stateTransitions :
    With(UNION {regions[i].touched : i \in 1..Len(regions)}, LAMBDA touched :
    IF \E i \in 1..Len(regions) : regions[i].threw THEN Threw(touched)
    ELSE IF \A i \in 1..Len(stateTransitions) : stateTransitions[i].transitions = <<>>
    THEN orNext(n, NoStateTransition(touched), state, eventName)
    ELSE StateTransition(
            flatten(Map(stateTransitions, LAMBDA st : st.transitions)),
            flatten(Map(stateTransitions, LAMBDA st : st.entrySet)),
            flatten(Map(stateTransitions, LAMBDA st : st.exitSet)),
            flatten(Map(stateTransitions, LAMBDA st : st.configuration)),
            flatten(Map(stateTransitions, LAMBDA st : st.actions)),
            touched)))
\* StateNode._transition with transitionLeafNode, transitionCompoundNode and
\* transitionParallelNode; v is the whole state value, n the node whose
\* part of it is looked at
RECURSIVE transitionNode(_, _, _, _)
transitionNode(n, v, state, eventName) ==
    With(keys(v, n), LAMBDA subStateKeys :
    IF Len(subStateKeys) = 1
    THEN orNext(n,
            IF isLeafNode(subStateKeys[1])
            THEN next(subStateKeys[1], state, eventName)
            ELSE transitionNode(subStateKeys[1], v, state, eventName),
            state, eventName)
    ELSE mergeRegions(n,
            Map(subStateKeys, LAMBDA k : transitionNode(k, v, state, eventName)),
            state, eventName))


\* ------------------------------------------------------------- actions
\* Array.prototype.sort by a key, ascending, stable
RECURSIVE insertSorted(_, _, _)
insertSorted(sorted, item, key) ==
    IF sorted = <<>> THEN <<item>>
    ELSE IF key[item] < key[Head(sorted)] THEN <<item>> \o sorted
    ELSE <<Head(sorted)>> \o insertSorted(Tail(sorted), item, key)
RECURSIVE sort(_, _)
sort(s, key) ==
    IF s = <<>> THEN <<>>
    ELSE insertSorted(sort(SubSeq(s, 1, Len(s) - 1), key), s[Len(s)], key)
descending == [n \in Nodes |-> 0 - order[n]]
\* an exit set left in the order in which the nodes were collected
sortExitSetUnsorted(exitSet) == NewSet(exitSet)
\* `transition.exitSet.sort((a, b) => b.order - a.order)` and new Set(...)
sortExitSet(exitSet) == NewSet(sort(exitSet, descending))
\* `transition.entrySet.sort((a, b) => a.order - b.order)` and new Set(...)
sortEntrySet(entrySet) == NewSet(sort(entrySet, order))
\* the loop of getActions that completes the exit set
RECURSIVE completeExitSet(_, _, _)
completeExitSet(exitSet, prevConfig, resolvedConfig) ==
    IF prevConfig = <<>> THEN exitSet
    ELSE LET sn == Head(prevConfig) IN
         completeExitSet(
            IF ~has(resolvedConfig, sn) \/ has(exitSet, parent(sn))
            THEN Append(exitSet, sn) ELSE exitSet,
            Tail(prevConfig), resolvedConfig)
\* actions.done(id): the name of the done event of a state node
done(id) == "done.state." \o id
\* done events that stop at the entered final node itself
doneEventsOfOwn(sn, configuration) ==
    IF type(sn) # "final" THEN <<>> ELSE <<done(sn)>>
\* the done events of an entered node (getActions)
doneEventsOf(sn, configuration) ==
    IF type(sn) # "final" THEN <<>>
    ELSE <<done(sn), done(parent(sn))>> \o
         (IF parent(parent(sn)) # NoNode
             /\ type(parent(parent(sn))) = "parallel"
             /\ \A i \in 1..Len(getChildren(parent(parent(sn)))) :
                   isInFinalState(configuration, getChildren(parent(parent(sn)))[i])
          THEN <<done(parent(parent(sn)))>> ELSE <<>>)
\* the action list of a microstep: exit actions, transition actions, entry
\* actions, done events
orderActions(exitActions, transitionActions, entryActions) ==
    exitActions \o transitionActions \o entryActions
\* StateNode.getActions; hasPrev is false for the initial state (no
\* prevState, no source), prevValue is prevState.value; the result holds the
\* exit and entry sets as the function leaves them in the StateTransition
getActions(machine, st, hasPrev, prevValue, initialized) ==
    With(getConfiguration(<<>>,
            IF hasPrev THEN getStateNodes(machine, prevValue) ELSE <<machine>>),
         LAMBDA prevConfig :
    With(IF st.configuration # <<>>
         THEN getConfiguration(prevConfig, st.configuration)
         ELSE prevConfig,
         LAMBDA resolvedConfig :
    With(st.entrySet
         \o SelectSeq(resolvedConfig, LAMBDA sn : ~has(prevConfig, sn))
         \o (IF hasPrev THEN <<>> ELSE <<machine>>),
         LAMBDA pushedEntrySet :
    With(sortEntrySet(pushedEntrySet), LAMBDA entrySet :
    With(sortExitSet(
            IF hasPrev
            THEN completeExitSet(st.exitSet, prevConfig, resolvedConfig)
            ELSE <<>>),
         LAMBDA exitSet :
    [actions |->
        orderActions(
            flatten(Map(exitSet,
                LAMBDA sn : onExit(sn, initialized)
                            \o Map(idMap[sn].activities, stop))),
            st.actions,
            flatten(Map(entrySet,
                LAMBDA sn : Map(idMap[sn].activities, start)
                            \o onEntry(sn, initialized)))
            \o Map(flatten(Map(pushedEntrySet,
                       LAMBDA sn : doneEventsOf(sn, st.configuration))),
                   raise)),
     exitSet |-> exitSet, entrySet |-> entrySet])))))

\* ------------------------------------------------------------- context
\* an assignment that leaves the context as it is
applyAssignNone(context, op) == context
\* one assignment of options.actions
applyAssign(context, op) ==
    CASE op \in {"inc", "inc_c0", "inc_c1", "inc_c2", "count_plus_1"} ->
            [context EXCEPT !.count = @ + 1]
      [] op = "reset" -> [context EXCEPT !.count = 0]
      [] op = "double" -> [context EXCEPT !.count = 2 * @]
      [] OTHER -> context
\* the assigns folded from the last of the list to the first
RECURSIVE updateContextReversed(_, _)
updateContextReversed(context, assignActions) ==
    IF assignActions = <<>> THEN context
    ELSE applyAssign(updateContextReversed(context, Tail(assignActions)),
                     Head(assignActions).name)
\* utils.updateContext: the assigns folded in list order
RECURSIVE updateContext(_, _)
updateContext(context, assignActions) ==
    IF assignActions = <<>> THEN context
    ELSE updateContext(applyAssign(context, Head(assignActions).name),
                       Tail(assignActions))
\* the expressions of the configs, evaluated on a context
evaluate(expr, context) ==
    CASE expr = "count" -> context.count
      [] expr = "count10" -> 10 * context.count
      [] OTHER -> NoValue
\* actions.resolveLog: the expression is evaluated on the context
resolveLog(action, context) ==
    [action EXCEPT !.value = evaluate(action.name, context)]
\* actions.resolveSend: a delay expression is evaluated on the context
resolveSend(action, context) ==
    IF action.name = "" THEN action
    ELSE [action EXCEPT !.delay = evaluate(action.name, context)]
\* the `get` of the Pure actions of the configs: the actions it returns
pureGet(name, context) ==
    CASE name = "thenReset" -> <<Custom("noted"), assign("reset")>>
      [] name = "report" -> <<[Custom("report") EXCEPT !.value = context.count]>>
      [] OTHER -> <<>>
\* the activities map after the start and stop actions of a microstep
RECURSIVE updateActivities(_, _)
updateActivities(activities, actions) ==
    IF actions = <<>> THEN activities
    ELSE LET action == Head(actions) IN
         updateActivities(
            IF action.type = "xstate.start"
            THEN (action.name :> TRUE) @@ activities
            ELSE IF action.type = "xstate.stop"
            THEN (action.name :> FALSE) @@ activities
            ELSE activities,
            Tail(actions))


\* --------------------------------------------------------------- State
InitialContext == [count |-> 0]
EmptyActivities == [x \in {} |-> FALSE]
\* state.history: the previous state (its history is deleted by
\* resolveTransition), or undefined
NoHistory ==
    [exists |-> FALSE, value |-> <<>>, context |-> InitialContext,
     chained |-> FALSE]
\* a State as the history of the next one; chained: it has a history itself
HistoryOf(state) ==
    [exists |-> TRUE, value |-> state.value, context |-> state.context,
     chained |-> state.history.exists]
\* a history that keeps its own history
disposeHistoryKept(history) == history
\* "Dispose of penultimate histories": `delete history.history`
disposeHistory(history) == [history EXCEPT !.chained = FALSE]
initEvent == "xstate.init"
\* utils.toSCXMLEvent: the SCXML event that wraps an event
toSCXMLEvent(eventName) == [name |-> eventName, type |-> "external", data |-> eventName]
\* State.from(stateValue, context) resolved by StateNode.resolveState
StateFrom(stateValue, context) ==
    [value |-> stateValue, context |-> context, event |-> initEvent,
     scxmlEvent |-> toSCXMLEvent(initEvent),
     hasHistoryValue |-> FALSE, historyValue |-> NoHistoryValue,
     history |-> NoHistory, actions |-> <<>>, activities |-> EmptyActivities,
     configuration |-> getConfiguration(<<>>,
                          getStateNodes(machineOf(stateValue[1]), stateValue)),
     transitions |-> <<>>, changed |-> "undefined"]
\* before the first call the caller holds no State
NoState ==
    [value |-> <<>>, context |-> InitialContext, event |-> initEvent,
     scxmlEvent |-> toSCXMLEvent(initEvent),
     hasHistoryValue |-> FALSE, historyValue |-> NoHistoryValue,
     history |-> NoHistory, actions |-> <<>>, activities |-> EmptyActivities,
     configuration |-> <<>>, transitions |-> <<>>, changed |-> "undefined"]
\* what a call of transition or initialState yields: the State, and what the
\* call did on the way: the microsteps in the order they were performed,
\* the nodes whose transitions are computed, whether MaxMicrosteps was hit
Outcome(state, microsteps, initialized, fuel, exhausted) ==
    [state |-> state, microsteps |-> microsteps, initialized |-> initialized,
     fuel |-> fuel, exhausted |-> exhausted, error |-> ""]
\* the call throws the error: no State is returned
Thrown(error, state, initialized, fuel) ==
    [Outcome(state, <<>>, initialized, fuel, FALSE) EXCEPT !.error = error]
Bool(b) == IF b THEN "true" ELSE "false"

\* a resolveTransition that never looks for transient nodes
isTransientNever(stateNodes) == FALSE
\* `stateNodes.some(stateNode => stateNode._transient)`
isTransient(stateNodes) == \E i \in 1..Len(stateNodes) : transient(stateNodes[i])
\* "Detect if state changed" (resolveTransition)
detectChanged(maybeNextState, history, assignActions) ==
    IF maybeNextState.changed = "true" THEN "true"
    ELSE IF history.exists
    THEN Bool(maybeNextState.actions # <<>> \/ assignActions # <<>>
              \/ ~stateValuesEqual(maybeNextState.value, history.value))
    ELSE "undefined"
\* the same, the actions so far being pushed behind the new ones
saveOriginalPushed(state, originalEvent, currentActions) ==
    [state EXCEPT !.scxmlEvent = toSCXMLEvent(originalEvent),
                  !.event = toSCXMLEvent(originalEvent).data,
                  !.actions = @ \o currentActions]
\* "Save original event to state" and the unshift of the actions so far
\* (resolveRaisedTransition, after the call of transition); scxmlEvent is
\* the `_event` attribute of the State
saveOriginal(state, originalEvent, currentActions) ==
    [state EXCEPT !.scxmlEvent = toSCXMLEvent(originalEvent),
                  !.event = toSCXMLEvent(originalEvent).data,
                  !.actions = currentActions \o @]
\* the order in which the raised events of a microstep are handed to
\* resolveRaisedTransition (`raisedEvents.shift()`)
shiftOrder(raisedEvents) == raisedEvents

RECURSIVE transition(_, _, _, _, _)
\* what resolveRaisedTransition returns: the outcome so far and the outcome
\* r of the call of transition, the state of r having been given the event
\* and the actions so far
raisedOutcome(sofar, r, originalEvent) ==
    [Outcome(saveOriginal(r.state, originalEvent, sofar.state.actions),
             sofar.microsteps \o r.microsteps, r.initialized, sofar.fuel,
             r.exhausted)
        EXCEPT !.error = r.error]
\* a resolveRaisedTransition that leaves the internal event on the state
resolveRaisedTransitionUnsaved(machine, sofar, eventName, originalEvent) ==
    IF sofar.fuel = 0 \/ sofar.exhausted
    THEN [sofar EXCEPT !.exhausted = TRUE]
    ELSE raisedOutcome(sofar,
            transition(machine, sofar.state, eventName, sofar.initialized,
                       sofar.fuel - 1),
            eventName)
\* StateNode.resolveRaisedTransition, on the outcome so far
resolveRaisedTransition(machine, sofar, eventName, originalEvent) ==
    IF sofar.fuel = 0 \/ sofar.exhausted
    THEN [sofar EXCEPT !.exhausted = TRUE]
    ELSE raisedOutcome(sofar,
            transition(machine, sofar.state, eventName, sofar.initialized,
                       sofar.fuel - 1),
            originalEvent)
\* `while (raisedEvents.length) { ... }` of resolveTransition
RECURSIVE drain(_, _, _, _)
drain(machine, sofar, raisedEvents, originalEvent) ==
    IF raisedEvents = <<>> \/ sofar.error # "" THEN sofar
    ELSE drain(machine,
               resolveRaisedTransition(machine, sofar, Head(raisedEvents).event,
                                       originalEvent),
               Tail(raisedEvents), originalEvent)
\* `partition(actions, action => action.type === assign)`
assignActionsOf(actions) == SelectSeq(actions, LAMBDA x : x.type = "xstate.assign")
\* `updatedContext` of resolveTransition
updatedContextOf(currentState, actions) ==
    IF assignActionsOf(actions) # <<>>
    THEN updateContext(currentState.context, assignActionsOf(actions))
    ELSE currentState.context
\* the other actions, resolved against the initial context of the machine
resolvedActionsOfInitial(actions, updatedContext) ==
    flatten(Map(SelectSeq(actions, LAMBDA x : x.type # "xstate.assign"),
                LAMBDA x :
                    CASE x.type = "xstate.send" -> <<resolveSend(x, InitialContext)>>
                      [] x.type = "xstate.log" -> <<resolveLog(x, InitialContext)>>
                      [] x.type = "xstate.pure" -> pureGet(x.name, InitialContext)
                      [] OTHER -> <<x>>))
\* `resolvedActions`: the other actions, a Pure action being replaced by the
\* actions its `get` returns
resolvedActionsOf(actions, updatedContext) ==
    flatten(Map(SelectSeq(actions, LAMBDA x : x.type # "xstate.assign"),
                LAMBDA x :
                    CASE x.type = "xstate.send" -> <<resolveSend(x, updatedContext)>>
                      [] x.type = "xstate.log" -> <<resolveLog(x, updatedContext)>>
                      [] x.type = "xstate.pure" -> pureGet(x.name, updatedContext)
                      [] OTHER -> <<x>>))
\* `partition(resolvedActions, action => action.type === raise)`
raisedEventsOf(resolvedActions) ==
    SelectSeq(resolvedActions, LAMBDA x : x.type = "xstate.raise")
nonRaisedActionsOf(resolvedActions) ==
    SelectSeq(resolvedActions, LAMBDA x : x.type # "xstate.raise")
\* `new State({...})` of resolveTransition, resolvedStateValue being <<>>
\* when no transition is taken
newState(machine, st, hasCurrent, currentState, eventName, actions, resolvedStateValue) ==
    [value |-> IF resolvedStateValue # <<>> THEN resolvedStateValue
               ELSE currentState.value,
     context |-> updatedContextOf(currentState, actions),
     event |-> eventName,
     scxmlEvent |-> toSCXMLEvent(eventName),
     hasHistoryValue |-> IF resolvedStateValue # <<>> THEN hasCurrent
                         ELSE currentState.hasHistoryValue,
     historyValue |->
        IF resolvedStateValue # <<>>
        THEN IF hasCurrent
             THEN updateHistoryValue(
                    IF currentState.hasHistoryValue THEN currentState.historyValue
                    ELSE historyValue(machine, currentState.value),
                    resolvedStateValue)
             ELSE NoHistoryValue
        ELSE currentState.historyValue,
     history |-> IF hasCurrent THEN disposeHistory(HistoryOf(currentState))
                 ELSE NoHistory,
     actions |-> IF resolvedStateValue # <<>>
                 THEN nonRaisedActionsOf(resolvedActionsOf(actions,
                            updatedContextOf(currentState, actions)))
                 ELSE <<>>,
     activities |-> IF resolvedStateValue # <<>>
                    THEN updateActivities(currentState.activities, actions)
                    ELSE currentState.activities,
     configuration |-> IF resolvedStateValue = <<>> THEN currentState.configuration
                       ELSE IF hasCurrent THEN st.configuration
                       ELSE Append(st.configuration, machine),
     transitions |-> st.transitions,
     changed |-> Bool(eventName = "xstate.update" \/ assignActionsOf(actions) # <<>>)]
\* what one microstep did
microstepOf(st, eventName, ga, nextState, willTransition) ==
    [event |-> eventName, took |-> willTransition,
     transitions |-> st.transitions, actions |-> ga.actions,
     exitSet |-> ga.exitSet, entrySet |-> ga.entrySet, value |-> nextState.value,
     context |-> nextState.context, configuration |-> nextState.configuration,
     raised |-> Map(raisedEventsOf(resolvedActionsOf(ga.actions, nextState.context)),
                    LAMBDA x : x.event)]
\* the same end, the history of the last microstep's state being kept
preserveOriginalUnrestored(last, nextState, assignActions) ==
    [last EXCEPT
        !.state.changed = detectChanged(last.state, nextState.history, assignActions),
        !.state.historyValue = nextState.historyValue,
        !.state.hasHistoryValue = nextState.hasHistoryValue]
\* the end of resolveTransition: "Detect if state changed" and "Preserve
\* original history after raised events"
preserveOriginal(last, nextState, assignActions) ==
    [last EXCEPT
        !.state.changed = detectChanged(last.state, nextState.history, assignActions),
        !.state.historyValue = nextState.historyValue,
        !.state.hasHistoryValue = nextState.hasHistoryValue,
        !.state.history = nextState.history]
\* StateNode.resolveTransition; hasCurrent is false for the initial state
resolveTransition(machine, st, hasCurrent, currentState, eventName, initialized, fuel) ==
    With(~hasCurrent \/ st.transitions # <<>>, LAMBDA willTransition :
    With(getActions(machine, st, hasCurrent, currentState.value,
                    initialized \cup st.touched),
         LAMBDA ga :
    With(newState(machine, st, hasCurrent, currentState, eventName, ga.actions,
                  IF willTransition THEN getValue(machine, st.configuration)
                  ELSE <<>>),
         LAMBDA nextState :
    With(Outcome(nextState,
                 <<microstepOf(st, eventName, ga, nextState, willTransition)>>,
                 initialized \cup st.touched, fuel, FALSE),
         LAMBDA first :
    IF ~willTransition THEN first
    ELSE preserveOriginal(
            drain(machine,
                  IF isTransient(getStateNodes(machine, nextState.value))
                  THEN resolveRaisedTransition(machine, first, NULL_EVENT, eventName)
                  ELSE first,
                  shiftOrder(raisedEventsOf(
                      resolvedActionsOf(ga.actions, nextState.context))),
                  eventName),
            nextState, assignActionsOf(ga.actions))))))
\* StateNode.ownEvents: the events of the transitions of n, the inert
\* transitions left out
ownEvents(n) ==
    {t.eventType : t \in {x \in Range(transitions[n]) :
        ~(x.target = <<>> /\ x.actions = <<>> /\ x.internal)}}
\* a StateNode.events that looks at the node's own transitions only
eventsOwn(n) == ownEvents(n)
\* StateNode.events: the events of n and of all the nodes below it
events(n) == UNION {ownEvents(m) : m \in {x \in Nodes : x = n \/ isDescendant(x, n)}}
\* utils.isBuiltInEvent: the built-in event names
isBuiltInEvent(eventName) ==
    \E prefix \in {"xstate.init", "xstate.after(", "done.state.",
                    "done.invoke.", "error.platform."} :
        /\ Len(eventName) >= Len(prefix)
        /\ SubSeq(eventName, 1, Len(prefix)) = prefix
\* StateNode.transition(state, event) for a State instance
transition(machine, state, eventName, initialized, fuel) ==
    IF idMap[machine].strict /\ eventName \notin events(machine)
       /\ ~isBuiltInEvent(eventName)
    THEN Thrown("does not accept event", state,
                initialized \cup {n \in Cached : machineOf(n) = machine}, fuel)
    ELSE
    With(transitionNode(machine, state.value, state, eventName),
         LAMBDA stateTransition :
    IF stateTransition.threw
    THEN Thrown("Unable to evaluate guard", state,
                initialized \cup stateTransition.touched, fuel)
    ELSE
    With(getConfiguration(<<>>, getStateNodes(machine, state.value)),
         LAMBDA prevConfig :
    resolveTransition(machine,
        [stateTransition EXCEPT
            !.def = TRUE,
            !.configuration =
                IF stateTransition.configuration # <<>>
                THEN getConfiguration(prevConfig, stateTransition.configuration)
                ELSE prevConfig],
        TRUE, state, eventName, initialized, fuel)))
\* StateNode.transition(stateValue, event) for a (resolved) state value
transitionFromValue(machine, stateValue, eventName, initialized) ==
    transition(machine, StateFrom(stateValue, InitialContext), eventName,
               initialized, MaxMicrosteps)
\* StateNode._init: nothing is done once the machine's own transitions are
\* computed, else the transitions of all its state nodes are computed
init(machine, initialized) ==
    IF machine \in initialized THEN initialized
    ELSE initialized \cup {n \in Cached : machineOf(n) = machine}
\* StateNode.initialState (with getInitialState)
initialState(machine, initialized) ==
    With(getStateNodes(machine, initialStateValue(machine)), LAMBDA configuration :
    resolveTransition(machine,
        [def |-> TRUE, transitions |-> <<>>, entrySet |-> configuration,
         exitSet |-> <<>>, configuration |-> configuration,
         actions |-> <<>>, touched |-> {}],
        FALSE, StateFrom(initialStateValue(machine), InitialContext),
        initEvent, init(machine, initialized), MaxMicrosteps))


\* ------------------------------------------------------------ xstate-fsm
INIT_EVENT == "xstate.init"
ASSIGN_ACTION == "xstate.assign"
\* assign(assignment): assignment stands for the assigner
fsmAssign(assignment) == [type |-> ASSIGN_ACTION, assignment |-> assignment]
\* toActionObject(action, actionMap) of an action written as a string
toActionObject(action) == [type |-> action, assignment |-> ""]
\* a transition of the config: target ("": none), actions, cond ("": none)
FsmTransitionConfig(target, actions, cond) ==
    [target |-> target, actions |-> actions, cond |-> cond]
\* the config handed to createMachine: `inactive` and `active` with exit and
\* entry actions and assigns, `pending` without any; two transitions for
\* TOGGLE in `inactive`, the first one guarded; transitions without target
\* (PING, STAY); a guard that never holds (NOOP); an action (nudge) and
\* transitions (KICK, RESET) used by the callers of the service
fsmConfig ==
    [initial |-> "inactive",
     context |-> [count |-> 0, last |-> 0],
     states |->
       [inactive |->
          [entry |-> <<toActionObject("enter_inactive")>>,
           exit |-> <<toActionObject("exit_inactive"), fsmAssign("mark")>>,
           on |-> [TOGGLE |-> <<FsmTransitionConfig("active",
                                   <<fsmAssign("inc"), toActionObject("toggled")>>,
                                   "ltMax"),
                                FsmTransitionConfig("pending", <<>>, "")>>,
                   PING |-> <<FsmTransitionConfig("", <<toActionObject("pinged")>>, "")>>,
                   NOOP |-> <<FsmTransitionConfig("active", <<>>, "never")>>]],
        active |->
          [entry |-> <<fsmAssign("stamp"), toActionObject("enter_active")>>,
           exit |-> <<toActionObject("exit_active")>>,
           on |-> [TOGGLE |-> <<FsmTransitionConfig("inactive", <<>>, "")>>,
                   KICK |-> <<FsmTransitionConfig("pending",
                                 <<toActionObject("nudge"), toActionObject("kicked")>>,
                                 "")>>]],
        pending |->
          [entry |-> <<>>,
           exit |-> <<>>,
           on |-> [STAY |-> <<FsmTransitionConfig("", <<>>, "")>>,
                   QUIET |-> <<FsmTransitionConfig("", <<fsmAssign("same")>>, "")>>,
                   RESET |-> <<FsmTransitionConfig("inactive", <<fsmAssign("reset")>>, "")>>]]]]
FsmEvents == {"TOGGLE", "PING", "NOOP", "KICK", "STAY", "QUIET", "RESET", "UNKNOWN"}
\* the guards of the config
fsmCond(cond, context) ==
    CASE cond = "" -> TRUE
      [] cond = "ltMax" -> context.count < MaxCount
      [] cond = "never" -> FALSE
\* an assign whose property assigners each see what the one before wrote
applyAssignmentChained(assignment, nextContext) ==
    CASE assignment = "inc" ->
            [count |-> nextContext.count + 1, last |-> nextContext.count + 1]
      [] assignment = "mark" -> [nextContext EXCEPT !.last = nextContext.count]
      [] assignment = "stamp" -> [nextContext EXCEPT !.last = nextContext.last + 10]
      [] assignment = "reset" -> [count |-> 0, last |-> nextContext.count]
      [] OTHER -> nextContext
\* one assign action: a function assigner (reset) returns the context, the
\* property assigners of an object (inc: count := count + 1 and
\* last := count; mark: last := count; stamp: last := last + 10; same: none)
\* are each evaluated on nextContext and written into a copy of it
applyAssignment(assignment, nextContext) ==
    CASE assignment = "inc" ->
            [count |-> nextContext.count + 1, last |-> nextContext.count]
      [] assignment = "mark" -> [nextContext EXCEPT !.last = nextContext.count]
      [] assignment = "stamp" -> [nextContext EXCEPT !.last = nextContext.last + 10]
      [] assignment = "reset" -> [count |-> 0, last |-> nextContext.count]
      [] OTHER -> nextContext
\* the filter over allActions: the assigns are applied one after the other
RECURSIVE fsmNextContext(_, _)
fsmNextContext(nextContext, allActions) ==
    IF allActions = <<>> THEN nextContext
    ELSE fsmNextContext(
            IF Head(allActions).type = ASSIGN_ACTION
            THEN applyAssignment(Head(allActions).assignment, nextContext)
            ELSE nextContext,
            Tail(allActions))
\* createUnchangedState(value, context)
createUnchangedState(value, context) ==
    [value |-> value, context |-> context, actions |-> <<>>, changed |-> "false"]
\* machine.initialState
fsmInitialState ==
    [value |-> fsmConfig.initial, context |-> fsmConfig.context,
     actions |-> fsmConfig.states[fsmConfig.initial].entry,
     changed |-> "undefined"]
\* toArray(stateConfig.on[eventObject.type])
fsmTransitions(value, eventType) ==
    IF eventType \in DOMAIN fsmConfig.states[value].on
    THEN fsmConfig.states[value].on[eventType] ELSE <<>>
\* the state returned for a transition whose cond holds
fsmTaken(value, context, trans) ==
    With(IF trans.target = "" THEN value ELSE trans.target, LAMBDA target :
    With(fsmConfig.states[value].exit \o trans.actions
            \o fsmConfig.states[target].entry,
         LAMBDA allActions :
    [value |-> target,
     context |-> fsmNextContext(context, allActions),
     actions |-> SelectSeq(allActions, LAMBDA a : a.type # ASSIGN_ACTION),
     changed |-> Bool(target # value
                      \/ SelectSeq(allActions, LAMBDA a : a.type # ASSIGN_ACTION) # <<>>
                      \/ \E i \in 1..Len(allActions) :
                            allActions[i].type = ASSIGN_ACTION)]))
\* the loop over the transitions of machine.transition
RECURSIVE fsmFirst(_, _, _)
fsmFirst(value, context, listed) ==
    IF listed = <<>> THEN createUnchangedState(value, context)
    ELSE IF fsmCond(Head(listed).cond, context)
    THEN fsmTaken(value, context, Head(listed))
    ELSE fsmFirst(value, context, Tail(listed))
\* machine.transition(state, event), state being a State
fsmTransition(state, eventType) ==
    fsmFirst(state.value, state.context, fsmTransitions(state.value, eventType))

\* the service of interpret(machine) while one of its methods runs: status,
\* state and listeners (a Set: insertion order) are the variables of the
\* closure; log is what the call did, in the order in which it did it: a
\* state produced by send, an action executed, a listener called, a
\* listener removed by itself
Listeners == {"plain", "relay", "once"}
NoFsmState == [value |-> "", context |-> fsmConfig.context, actions |-> <<>>,
               changed |-> "undefined"]
Produced(from, eventType, to) ==
    [kind |-> "send", who |-> "", event |-> eventType, from |-> from, state |-> to]
Executed(action, state, eventType) ==
    [kind |-> "exec", who |-> action.type, event |-> eventType,
     from |-> NoFsmState, state |-> state]
Called(listener, state) ==
    [kind |-> "listener", who |-> listener, event |-> "", from |-> NoFsmState,
     state |-> state]
Deleted(listener) ==
    [kind |-> "delete", who |-> listener, event |-> "", from |-> NoFsmState,
     state |-> NoFsmState]
\* the actions of the config that have an `exec` (given as functions or
\* found in the action map); `toggled` is a plain string
HasExec(action) == action.type # "toggled"
deleteListener(listeners, listener) == SelectSeq(listeners, LAMBDA l : l # listener)
RECURSIVE serviceSend(_, _)
\* exec(state.context, event) of one action; the exec of `nudge` calls
\* service.send('RESET')
exec(sv, action, state, eventType) ==
    IF ~HasExec(action) THEN sv
    ELSE With([sv EXCEPT !.log = Append(@, Executed(action, state, eventType))],
              LAMBDA sv1 :
         IF action.type = "nudge" THEN serviceSend(sv1, "RESET") ELSE sv1)
\* executeStateActions(state, event): state is the State handed over
RECURSIVE executeStateActions(_, _, _, _)
executeStateActions(sv, actions, state, eventType) ==
    IF actions = <<>> THEN sv
    ELSE executeStateActions(exec(sv, Head(actions), state, eventType),
                             Tail(actions), state, eventType)
\* listener(state): `state` is read from the closure when the listener is
\* called. `relay` calls service.send('RESET') when it is handed a state
\* with value pending; `once` calls its unsubscribe() when a send hands it
\* a state with value active; `plain` calls nothing
callListener(sv, listener, fromSend) ==
    With([sv EXCEPT !.log = Append(@, Called(listener, sv.state))], LAMBDA sv1 :
    IF listener = "relay" /\ sv.state.value = "pending"
    THEN serviceSend(sv1, "RESET")
    ELSE IF listener = "once" /\ fromSend /\ sv.state.value = "active"
    THEN [sv1 EXCEPT !.listeners = deleteListener(@, listener),
                     !.log = Append(@, Deleted(listener))]
    ELSE sv1)
\* listeners.forEach(listener => listener(state)): a listener deleted before
\* its turn is not visited
RECURSIVE forEachListener(_, _)
forEachListener(sv, remaining) ==
    IF remaining = <<>> THEN sv
    ELSE IF ~has(sv.listeners, Head(remaining))
    THEN forEachListener(sv, Tail(remaining))
    ELSE forEachListener(callListener(sv, Head(remaining), TRUE), Tail(remaining))
\* the body of service.send once the status was checked
accepted(sv, eventType) ==
    With(fsmTransition(sv.state, eventType), LAMBDA nextState :
    With(executeStateActions(
            [sv EXCEPT !.state = nextState,
                       !.log = Append(@, Produced(sv.state, eventType, nextState))],
            nextState.actions, nextState, eventType),
         LAMBDA sv2 : forEachListener(sv2, sv2.listeners)))
\* a send that does not look at the status
sendAlways(sv, eventType) == accepted(sv, eventType)
\* service.send(event)
serviceSend(sv, eventType) ==
    IF sv.status # "running" THEN sv ELSE accepted(sv, eventType)
\* service.subscribe(listener)
subscribe(sv, listener) ==
    callListener([sv EXCEPT !.listeners = add(@, listener)], listener, FALSE)
\* the unsubscribe() of the object that subscribe returned
unsubscribe(sv, listener) ==
    [sv EXCEPT !.listeners = deleteListener(@, listener)]
\* service.start()
serviceStart(sv) ==
    executeStateActions([sv EXCEPT !.status = "running"], sv.state.actions,
                        sv.state, INIT_EVENT)
\* a stop that keeps the listeners
stopKeeping(sv) == [sv EXCEPT !.status = "stopped"]
\* service.stop()
serviceStop(sv) == [sv EXCEPT !.status = "stopped", !.listeners = <<>>]
\* interpret(machine): the service before any call
NewService == [status |-> "notStarted", state |-> fsmInitialState, listeners |-> <<>>]
NoEffects == [op |-> "none", who |-> "", event |-> "", found |-> <<>>, log |-> <<>>]
\* the closure of the service, with an empty log, as a call finds it
Entering(svc) ==
    [status |-> svc.status, state |-> svc.state, listeners |-> svc.listeners,
     log |-> <<>>]

\* ------------------------------------------------------ the state machine
\* the state values handed to transition(stateValue, event)
StartValues ==
    [light |-> {<<"green">>, <<"yellow">>},
     q |-> {<<"q0">>},
     h |-> {<<"off">>},
     w |-> {<<"p", "a", "a1", "b", "b1">>},
     c |-> {<<"c0">>},
     d |-> {<<"work", "r1", "r1a", "r2", "r2a">>},
     counter |-> {<<"active">>},
     loop |-> {<<"idle">>}]
\* the events handed to transition(stateValue, event)
StartEvents ==
    [light |-> {"TIMER", "UNKNOWN"}, q |-> {"GO"}, h |-> {"ON"},
     w |-> {"CHANGE"}, c |-> {"GO"}, d |-> {"FIN"}, counter |-> {"INC"},
     loop |-> {"HOP"}]

VARIABLES
    machine,      \* the root node of the machine in use
    initialized,  \* the nodes of Cached whose __cache.transitions is filled
    status,       \* "fresh" until the caller holds a State
    state,        \* the State the caller holds (the last one returned)
    prev,         \* the State that was passed to the last call
    call,         \* the last call: operation, event, microsteps
    seen,         \* the calls transition(stateValue, event) made so far,
                  \* each with what it returned
    left,         \* for each parent of a history node: the state value
                  \* below it when it was last active in the states that
                  \* led to `state` (<<>>: never yet)
    resolved,     \* the last call of resolve: the node, the state value
                  \* passed and the state value returned
    sent,         \* the number of INC events applied to the counter machine
                  \* since its initial state
    strings,      \* what toStrings() returned for the State the caller
                  \* holds (<<>>: not called on it)
    service,      \* the xstate-fsm service: status, state and listeners
    effects       \* the last call of a method of the service: the listeners
                  \* it found, and what it produced, executed and notified,
                  \* in order
vars ==
    <<idMap, machine, initialized, status, state, prev, call, seen, left,
      resolved, sent, strings, service, effects>>

\* the last call: op is the operation when it returned a State and "throw"
\* when it threw, error the message of what it threw
NoCall ==
    [op |-> "none", event |-> "", microsteps |-> <<>>, exhausted |-> FALSE,
     error |-> ""]
Call(op, eventName, outcome) ==
    [op |-> IF outcome.error = "" THEN op ELSE "throw", event |-> eventName,
     microsteps |-> outcome.microsteps, exhausted |-> outcome.exhausted,
     error |-> outcome.error]
Observed(stateValue, eventName, s) ==
    [stateValue |-> stateValue, event |-> eventName, value |-> s.value,
     context |-> s.context, actions |-> s.actions]

NoResolve == [node |-> NoNode, given |-> <<>>, value |-> <<>>]
\* the parents of the history nodes
HistoryParents == {parent(n) : n \in {m \in Nodes : type(m) = "history"}}
NeverLeft == [n \in HistoryParents |-> <<>>]
\* left, after the microsteps of a call; a State that does not come from
\* the State the caller held starts from NeverLeft
RECURSIVE leftAfter(_, _)
leftAfter(l, microsteps) ==
    IF microsteps = <<>> THEN l
    ELSE leftAfter([n \in HistoryParents |->
                        IF has(Head(microsteps).value, n)
                        THEN sub(Head(microsteps).value, n) ELSE l[n]],
                   Tail(microsteps))

Init ==
    /\ machine \in Machines
    /\ idMap = Machine(NodeDef, machine)
    /\ initialized = {}
    /\ status = "fresh"
    /\ state = NoState
    /\ prev = NoState
    /\ call = NoCall
    /\ seen = {}
    /\ left = NeverLeft
    /\ resolved = NoResolve
    /\ sent = 0
    /\ strings = <<>>
    /\ service = NewService
    /\ effects = NoEffects

\* the call threw, or its macrostep did not end
failed(outcome) == outcome.error # "" \/ outcome.exhausted
\* "Dispose of penultimate histories": resolveTransition deletes the history
\* of the State it was given as soon as the first microstep is computed
disposed(given, outcome) ==
    IF outcome.microsteps # <<>> THEN [given EXCEPT !.history = NoHistory]
    ELSE given
\* a call returns: the caller holds the returned State, given is the State
\* the call was given, history what `left` was for that State; when the
\* call throws the caller holds what it held before, as the call left it;
\* so it does when the macrostep does not end (the nested calls of
\* transition exceed the call stack; in the model, MaxMicrosteps)
Returned(op, eventName, given, history, outcome) ==
    /\ state' = IF ~failed(outcome) THEN outcome.state
                ELSE IF op = "transition" THEN disposed(given, outcome)
                ELSE state
    /\ prev' = given
    /\ initialized' = outcome.initialized
    /\ call' = Call(op, eventName, outcome)
    /\ left' = IF ~failed(outcome) THEN leftAfter(history, outcome.microsteps)
               ELSE left
    /\ status' = IF ~failed(outcome) THEN "running" ELSE status
    /\ sent' = IF machine # "counter" \/ failed(outcome) THEN sent
               ELSE IF op = "initialState" THEN 0
               ELSE (IF op = "transition" THEN sent ELSE 0)
                    + (IF eventName = "INC" THEN 1 ELSE 0)
    /\ strings' = <<>>
    /\ UNCHANGED <<idMap, resolved, service, effects>>

\* the caller reads machine.initialState
ReadInitialState ==
    /\ Returned("initialState", initEvent, state, NeverLeft,
                initialState(machine, initialized))
    /\ UNCHANGED <<machine, seen>>

\* the caller calls machine.transition(state, event) with the State it holds
Transition(eventName) ==
    /\ status = "running"
    /\ machine = "counter" /\ eventName = "INC" => state.context.count < MaxCount
    /\ Returned("transition", eventName, state, left,
                transition(machine, state, eventName, initialized, MaxMicrosteps))
    /\ UNCHANGED <<machine, seen>>

\* the caller calls machine.transition(stateValue, event) with a state value
TransitionFromValue(stateValue, eventName) ==
    /\ Returned("transitionFromValue", eventName,
                StateFrom(stateValue, InitialContext), NeverLeft,
                transitionFromValue(machine, stateValue, eventName, initialized))
    /\ UNCHANGED <<machine, seen>>

\* the same call, the returned value, context and actions being recorded
Probe(stateValue, eventName) ==
    /\ Returned("transitionFromValue", eventName,
                StateFrom(stateValue, InitialContext), NeverLeft,
                transitionFromValue(machine, stateValue, eventName, initialized))
    /\ seen' = seen \cup {Observed(stateValue, eventName, state')}
    /\ UNCHANGED machine

\* the caller reads the `definition` of a state node: the transitions of the
\* node and of its descendants are computed
ReadDefinition(n) ==
    /\ machineOf(n) = machine
    /\ initialized' = initialized \cup
                         {d \in Cached : d = n \/ isDescendant(d, n)}
    /\ UNCHANGED <<idMap, machine, status, state, prev, call, seen, left,
                   resolved, sent, strings, service, effects>>

\* the partial state values of node n: below a compound node no child or
\* one child is chosen, below a parallel node any of the regions are given
RECURSIVE PartialValues(_)
RECURSIVE PartialRegions(_)
PartialRegions(children) ==
    IF children = <<>> THEN {<<>>}
    ELSE {x \o y : x \in {<<>>} \cup {<<Head(children)>> \o pv :
                                          pv \in PartialValues(Head(children))},
                    y \in PartialRegions(Tail(children))}
PartialValues(n) ==
    IF type(n) = "parallel"
    THEN PartialRegions(SelectSeq(getChildren(n), LAMBDA c : type(c) # "history"))
    ELSE {<<>>} \cup UNION {{<<c>> \o pv : pv \in PartialValues(c)} :
                            c \in {x \in Range(getChildren(n)) : type(x) # "history"}}
\* the caller calls n.resolve(stateValue)
Resolve(n, stateValue) ==
    /\ resolved' = [node |-> n, given |-> stateValue, value |-> resolve(n, stateValue)]
    /\ UNCHANGED <<idMap, machine, initialized, status, state, prev, call,
                   seen, left, sent, strings, service, effects>>

Next ==
    \/ ReadInitialState
    \/ \E e \in Events[machine] : Transition(e)
    \/ \E v \in StartValues[machine], e \in StartEvents[machine] :
          TransitionFromValue(v, e)

Spec == Init /\ [][Next]_vars

\* the calls on a machine whose results are compared with each other
NextCache ==
    \/ ReadInitialState
    \/ \E n \in Cached : ReadDefinition(n)
    \/ \E v \in StartValues[machine], e \in StartEvents[machine] : Probe(v, e)

SpecCache == Init /\ [][NextCache]_vars

\* the caller calls state.toStrings() on the State it holds
ToStrings ==
    /\ status = "running"
    /\ strings' = toStrings(machine, state.value, ".")
    /\ UNCHANGED <<idMap, machine, initialized, status, state, prev, call,
                   seen, left, resolved, sent, service, effects>>

\* the calls on a machine, and toStrings on the states they return
NextStrings ==
    \/ Next
    \/ ToStrings

SpecStrings == Init /\ [][NextStrings]_vars

\* a method of the service returns: sv is the closure as the call left it
ServiceReturned(op, who, eventType, sv) ==
    /\ service' = [status |-> sv.status, state |-> sv.state,
                   listeners |-> sv.listeners]
    /\ effects' = [op |-> op, who |-> who, event |-> eventType,
                   found |-> service.listeners, log |-> sv.log]
    /\ UNCHANGED <<idMap, machine, initialized, status, state, prev, call,
                   seen, left, resolved, sent, strings>>
Start == ServiceReturned("start", "", INIT_EVENT, serviceStart(Entering(service)))
Stop == ServiceReturned("stop", "", "", serviceStop(Entering(service)))
Send(eventType) ==
    ServiceReturned("send", "", eventType, serviceSend(Entering(service), eventType))
Subscribe(listener) ==
    ServiceReturned("subscribe", listener, "", subscribe(Entering(service), listener))
Unsubscribe(listener) ==
    /\ has(service.listeners, listener)
    /\ ServiceReturned("unsubscribe", listener, "",
                       unsubscribe(Entering(service), listener))

\* the calls of the methods of the xstate-fsm service
NextFsm ==
    \/ Start
    \/ Stop
    \/ \E e \in FsmEvents : Send(e)
    \/ \E l \in Listeners : Subscribe(l)
    \/ \E l \in Listeners : Unsubscribe(l)

SpecFsm == Init /\ [][NextFsm]_vars

\* the calls of resolve, on every node of the machine that has children
NextResolve ==
    \E n \in {m \in Nodes : ~isLeafNode(m) /\ type(m) # "history"} :
        \E v \in PartialValues(n) : Resolve(n, v)

SpecResolve == Init /\ [][NextResolve]_vars


\* =================================================================== claims
\* the calls that go through StateNode.transition
Transitioned == call.op \in {"transition", "transitionFromValue"}
ActiveNodes(s) == Range(s.value) \cup {machine}
ActiveChildren(S, n) == {c \in Range(getChildren(n)) : c \in S}

\* C1: the configuration of every state returned by initialState or
\* transition is closed: every ancestor of an active node is active, every
\* active compound node has exactly one active child, every active parallel
\* node has all its non-history children active.
C1_ClosedConfiguration ==
    status = "running" =>
        LET S == Range(state.configuration) IN
        /\ \A n \in S : parent(n) # NoNode => parent(n) \in S
        /\ \A n \in S : type(n) = "compound" =>
                Cardinality(ActiveChildren(S, n)) = 1
        /\ \A n \in S : type(n) = "parallel" =>
                \A c \in Range(getChildren(n)) : type(c) # "history" => c \in S

\* no transition is enabled for event e in state s: every transition of an
\* active node whose event is e (or the wildcard) has a guard that fails
NoEnabled(s, e) ==
    \A n \in ActiveNodes(s) : \A i \in 1..Len(transitions[n]) :
        LET t == transitions[n][i] IN
        t.eventType \in {e, WILDCARD} =>
            t.cond # "" /\ ~evaluateGuard(t.cond, s.context)
\* C2: a transition call with an event for which no transition is enabled
\* returns the value, context, configuration, activities and history value
\* of the state it was given, no action and changed = false, and the same
\* event applied to the result returns the result again.
C2_NoOp ==
    (Transitioned /\ NoEnabled(prev, call.event)) =>
        /\ state.value = prev.value
        /\ state.context = prev.context
        /\ state.actions = <<>>
        /\ state.configuration = prev.configuration
        /\ state.activities = prev.activities
        /\ state.hasHistoryValue = prev.hasHistoryValue
        /\ state.historyValue = prev.historyValue
        /\ state.changed = "false"
        /\ transition(machine, state, call.event, initialized,
                      MaxMicrosteps).state = state
\* a no-op where a candidate exists and its guard fails
C2_Witness ==
    /\ call.op = "transition"
    /\ NoEnabled(prev, call.event)
    /\ \E n \in ActiveNodes(prev) : getCandidates(n, call.event) # <<>>

\* C3: two calls transition(stateValue, event) with the same state value and
\* the same event return the same value, context and actions, whatever was
\* done with the machine before each of them.
C3_SameResult ==
    \A r1, r2 \in seen :
        (r1.stateValue = r2.stateValue /\ r1.event = r2.event) => r1 = r2


\* the exit and the entry actions a node contributes to a microstep, the
\* delayed transitions being computed
exitActionsOf(n) == onExit(n, Cached) \o Map(idMap[n].activities, stop)
entryActionsOf(n) == Map(idMap[n].activities, start) \o onEntry(n, Cached)
IsExit(a) == \E n \in Nodes : has(exitActionsOf(n), a)
IsEntry(a) == \E n \in Nodes : has(entryActionsOf(n), a)
IsDone(a) == \E n \in Nodes : a = raise(done(n))
ExitNode(a) == CHOOSE n \in Nodes : has(exitActionsOf(n), a)
EntryNode(a) == CHOOSE n \in Nodes : has(entryActionsOf(n), a)
\* exit actions 0, transition actions 1, entry actions and done events 2
Phase(a) == IF IsExit(a) THEN 0 ELSE IF IsEntry(a) \/ IsDone(a) THEN 2 ELSE 1
\* the transition actions of the transitions a microstep selected
RECURSIVE selectedActions(_)
selectedActions(trs) ==
    IF trs = <<>> THEN <<>> ELSE Head(trs).actions \o selectedActions(Tail(trs))
CanonicalOrder(ms) ==
    /\ \A i, j \in 1..Len(ms.actions) : i < j =>
          LET a == ms.actions[i]
              b == ms.actions[j]
          IN  /\ Phase(a) <= Phase(b)
              /\ (IsExit(a) /\ IsExit(b)) =>
                    order[ExitNode(a)] >= order[ExitNode(b)]
              /\ (IsEntry(a) /\ IsEntry(b)) =>
                    order[EntryNode(a)] <= order[EntryNode(b)]
    /\ \A i \in 1..Len(ms.actions) :
          LET a == ms.actions[i] IN
          /\ IsExit(a) => has(ms.exitSet, ExitNode(a))
          /\ IsEntry(a) => has(ms.entrySet, EntryNode(a))
    /\ \A n \in Range(ms.exitSet) : \A a \in Range(exitActionsOf(n)) :
          (a.type \notin {"xstate.send", "xstate.cancel"}) => has(ms.actions, a)
    /\ \A n \in Range(ms.entrySet) : \A a \in Range(entryActionsOf(n)) :
          (a.type \notin {"xstate.send", "xstate.cancel"}) => has(ms.actions, a)
    /\ SelectSeq(ms.actions, LAMBDA a : Phase(a) = 1) = selectedActions(ms.transitions)
\* C4: the action list of every microstep is the exit actions of the nodes
\* of the exit set in descending document order, then the actions of the
\* selected transitions, then the entry actions of the nodes of the entry
\* set in ascending document order.
C4_CanonicalOrder ==
    \A k \in 1..Len(call.microsteps) : CanonicalOrder(call.microsteps[k])
\* a microstep that exits two nodes, runs a transition action and enters
\* two nodes
C4_Witness ==
    \E k \in 1..Len(call.microsteps) :
        LET ms == call.microsteps[k] IN
        /\ Cardinality({ExitNode(a) : a \in {x \in Range(ms.actions) : IsExit(x)}}) >= 2
        /\ Cardinality({EntryNode(a) : a \in {x \in Range(ms.actions) : IsEntry(x)}}) >= 2
        /\ \E a \in Range(ms.actions) : Phase(a) = 1

\* every exit action of the list precedes every entry action of the list
\* whose node is not strictly above the exit action's node
OrderLaw(actions) ==
    \A i, j \in 1..Len(actions) :
        (/\ IsExit(actions[i])
         /\ IsEntry(actions[j])
         /\ ~isDescendant(ExitNode(actions[i]), EntryNode(actions[j]))) => i < j
\* the actions a microstep hands to the returned state
emitted(ms) ==
    IF ms.took
    THEN nonRaisedActionsOf(resolvedActionsOf(ms.actions, ms.context))
    ELSE <<>>
\* C5 as stated: the order law holds in the action list of the state a
\* transition call returns, over the whole macrostep.
C5_OrderLawMacrostep == Transitioned => OrderLaw(state.actions)
\* C5: the action list of the state a transition call returns is the
\* concatenation of what its microsteps emitted, in the order in which the
\* microsteps were performed, and the order law holds within the part of
\* each microstep.
C5_OrderLawMicrostep ==
    (Transitioned /\ ~call.exhausted) =>
        /\ state.actions = flatten(Map(call.microsteps, emitted))
        /\ \A k \in 1..Len(call.microsteps) : OrderLaw(emitted(call.microsteps[k]))
\* a macrostep of several microsteps, two of them with exit and entry actions
C5_Witness ==
    /\ call.op = "transition"
    /\ \E k, l \in 1..Len(call.microsteps) :
          /\ k < l
          /\ \A m \in {k, l} :
                /\ \E a \in Range(emitted(call.microsteps[m])) : IsExit(a)
                /\ \E a \in Range(emitted(call.microsteps[m])) : IsEntry(a)

\* the microsteps consume the internal events from one queue: a microstep
\* of a raised event takes the head, the events it raises join the tail
RECURSIVE Fifo(_, _)
Fifo(queue, microsteps) ==
    IF microsteps = <<>> THEN TRUE
    ELSE LET ms == Head(microsteps) IN
         IF ms.event = NULL_EVENT
         THEN Fifo(queue \o ms.raised, Tail(microsteps))
         ELSE /\ queue # <<>>
              /\ ms.event = Head(queue)
              /\ Fifo(Tail(queue) \o ms.raised, Tail(microsteps))
\* C6: the internal events of a macrostep are processed first in, first
\* out: an event raised by a microstep is processed after all the events
\* raised by earlier microsteps.
C6_Fifo ==
    (Transitioned /\ ~call.exhausted) =>
        Fifo(call.microsteps[1].raised, Tail(call.microsteps))


\* the microstep after microstep k of the last call is a null-event one
NullFollows(k) ==
    k < Len(call.microsteps) /\ call.microsteps[k + 1].event = NULL_EVENT
C8_OriginalEvent ==
    (Transitioned /\ ~call.exhausted /\ call.error = "") =>
        /\ state.event = call.event
        /\ state.scxmlEvent = toSCXMLEvent(call.event)
\* a macrostep in which a raised event's microstep raised an event itself
C8_Witness ==
    /\ call.op = "transition"
    /\ Len(call.microsteps) >= 3
    /\ \E k \in 2..Len(call.microsteps) :
          /\ call.microsteps[k].event \notin {NULL_EVENT, call.event}
          /\ call.microsteps[k].raised # <<>>

\* an assign action ran in a microstep of the last call
AssignRan ==
    \E k \in 1..Len(call.microsteps) :
        \E a \in Range(call.microsteps[k].actions) : a.type = "xstate.assign"
\* C9: for the state returned by transition(s, e), s having a predecessor,
\* changed is true exactly when an assign action ran in the macrostep, or
\* the returned value differs from s.value, or the returned action list is
\* not empty, and changed is false otherwise.
C9_Changed ==
    (call.op = "transition" /\ prev.history.exists /\ ~call.exhausted) =>
        /\ state.changed \in {"true", "false"}
        /\ state.changed = "true" <=>
              \/ AssignRan
              \/ ~stateValuesEqual(state.value, prev.value)
              \/ state.actions # <<>>

\* C10: when the first microstep of transition(s, e) takes a transition to
\* a history node h whose parent P is not active in s and was active
\* before, P is entered with the child c that was active when P was last
\* left: below P the value is c with c's initial descendants (shallow), or
\* the whole value P had when it was left (deep).
C10_HistoryLaw ==
    [][(call'.op = "transition" /\ call'.microsteps[1].took) =>
        \A i \in 1..Len(call'.microsteps[1].transitions) :
          \A h \in Range(call'.microsteps[1].transitions[i].target) :
            (/\ type(h) = "history"
             /\ ~has(state.value, parent(h))
             /\ left[parent(h)] # <<>>) =>
                LET P == parent(h)
                    c == keys(left[P], P)[1]
                    restored == sub(call'.microsteps[1].value, P)
                IN  IF idMap[h].history = "deep"
                    THEN restored = left[P]
                    ELSE restored = <<c>> \o initialStateValue(c)]_vars

\* C11: after a transition call that changes the value, the history value
\* of the returned state records the returned state: for every active node
\* with children, the value that is active below it in state.value, also
\* when the macrostep went on with eventless or raised events.
C11_HistoryRecordsState ==
    (Transitioned /\ ~call.exhausted /\ state.value # prev.value) =>
        /\ state.hasHistoryValue
        /\ \A n \in ActiveNodes(state) :
              getChildren(n) # <<>> => state.historyValue[n] = sub(state.value, n)

\* C12: when the first microstep of transition(s, e) takes a transition to
\* a history node h whose parent P has not been active in the states that
\* led to s, P is entered through the default target of h when h declares
\* one, and with the initial state of P otherwise, whether or not other
\* transitions were taken before.
C12_HistoryDefault ==
    [][(call'.op = "transition" /\ call'.microsteps[1].took) =>
        \A i \in 1..Len(call'.microsteps[1].transitions) :
          \A h \in Range(call'.microsteps[1].transitions[i].target) :
            (type(h) = "history" /\ left[parent(h)] = <<>>) =>
                LET P == parent(h)
                    restored == sub(call'.microsteps[1].value, P)
                IN  IF idMap[h].target # <<>>
                    THEN \A t \in Range(idMap[h].target) : has(restored, t)
                    ELSE restored = initialStateValue(P)]_vars

\* the assign actions of a list applied one after the other
RECURSIVE FoldAssigns(_, _)
FoldAssigns(context, actions) ==
    IF actions = <<>> THEN context
    ELSE FoldAssigns(IF Head(actions).type = "xstate.assign"
                     THEN applyAssign(context, Head(actions).name)
                     ELSE context,
                     Tail(actions))
\* the context before microstep k of the last call: the assigns of the
\* action lists of the microsteps before it, folded from the context of the
\* state the call was given
ContextBefore(k) ==
    FoldAssigns(prev.context,
                flatten([i \in 1..(k - 1) |-> call.microsteps[i].actions]))
\* C13: the context of the state a transition call returns is the fold of
\* the assign actions of the macrostep, in the order of the action lists,
\* microstep after microstep, from the context of the state the call was
\* given; the guards of the transitions a microstep takes hold in the
\* context before the assigns of that microstep.
C13_AssignFold ==
    (Transitioned /\ ~call.exhausted) =>
        /\ state.context = ContextBefore(Len(call.microsteps) + 1)
        /\ \A k \in 1..Len(call.microsteps) :
              \A i \in 1..Len(call.microsteps[k].transitions) :
                 LET t == call.microsteps[k].transitions[i] IN
                 t.cond # "" => evaluateGuard(t.cond, ContextBefore(k))
\* a macrostep of two microsteps with assigns among the exit, transition
\* and entry actions, the second one guarded by a condition that holds
\* before its assigns and not after them
C13_Witness ==
    /\ call.op = "transition"
    /\ Len(call.microsteps) = 2
    /\ Len(assignActionsOf(call.microsteps[1].actions)) = 3
    /\ \E i \in 1..Len(call.microsteps[2].transitions) :
          LET t == call.microsteps[2].transitions[i] IN
          /\ t.cond # ""
          /\ evaluateGuard(t.cond, ContextBefore(2))
          /\ ~evaluateGuard(t.cond, state.context)

\* C14: the action list of a state returned by initialState or transition
\* holds no assign action.
C14_NoAssignEmitted ==
    status = "running" =>
        \A i \in 1..Len(state.actions) : state.actions[i].type # "xstate.assign"

\* the value before microstep k of the last call
ValueBefore(k) == IF k = 1 THEN prev.value ELSE call.microsteps[k - 1].value
\* the transitions of node n for event e as the config of n writes them,
\* in the order in which they are written
WrittenCandidates(n, e) ==
    SelectSeq(idMap[n].on,
              LAMBDA t : IF e = NULL_EVENT THEN t.event = e
                         ELSE t.event \in {e, WILDCARD})
\* those whose guard holds in the context
WrittenEnabled(n, e, context) ==
    SelectSeq(WrittenCandidates(n, e),
              LAMBDA t : t.cond = "" \/ evaluateGuard(t.cond, context))
\* C15: every transition a microstep selects is the first one, in the
\* order written in the config of its source node, whose event is the
\* microstep's event or the wildcard and whose guard holds; its source is
\* active and no active node below the source has such a transition; and a
\* microstep selects a transition whenever an active node has one.
C15_Selection ==
    (Transitioned /\ ~call.exhausted) =>
        \A k \in 1..Len(call.microsteps) :
            LET ms == call.microsteps[k]
                active == Range(ValueBefore(k)) \cup {machine}
                context == ContextBefore(k)
            IN  /\ \A i \in 1..Len(ms.transitions) :
                      LET t == ms.transitions[i] IN
                      /\ t.source \in active
                      /\ WrittenEnabled(t.source, ms.event, context) # <<>>
                      /\ t = formatTransition(t.source,
                                WrittenEnabled(t.source, ms.event, context)[1])
                      /\ \A d \in active :
                            isDescendant(d, t.source) =>
                                WrittenEnabled(d, ms.event, context) = <<>>
                /\ (\E n \in active : WrittenEnabled(n, ms.event, context) # <<>>)
                      => ms.transitions # <<>>

\* node n forbids event e: its config maps e to undefined
Forbids(n, e) == has(idMap[n].on, Forbidden(e))
\* the state the call was given has one atomic node, which forbids the
\* event of the call
ForbiddenCall ==
    /\ call.op = "transition"
    /\ \E n \in Range(prev.value) : isLeafNode(n) /\ Forbids(n, call.event)
    /\ \A n \in Range(prev.value) : type(n) # "parallel"
\* C16: transition(s, E), the active atomic node of s forbidding E, takes
\* no other transition than the forbidden one, the ancestors having a
\* transition for E or not: the value, the context and the configuration
\* are those of s and no action is emitted.
C16_Forbidden ==
    ForbiddenCall =>
        /\ state.value = prev.value
        /\ state.context = prev.context
        /\ Range(state.configuration) = Range(prev.configuration)
        /\ state.actions = <<>>
        /\ Len(call.microsteps) = 1
        /\ call.microsteps[1].actions = <<>>
        /\ \A i \in 1..Len(call.microsteps[1].transitions) :
              LET t == call.microsteps[1].transitions[i] IN
              isLeafNode(t.source) /\ t.target = <<>> /\ t.actions = <<>>
\* a forbidden event for which an ancestor of the atomic node declares a
\* transition
C16_Witness ==
    /\ ForbiddenCall
    /\ \E n \in Range(prev.value) :
          /\ isLeafNode(n)
          /\ Forbids(n, call.event)
          /\ \E i \in 1..Len(ancestors(n)) :
                enabledCandidates(ancestors(n)[i], prev.context, call.event) # <<>>

\* the first microstep of the last call selected transitions, none of
\* which has a target
TargetlessCall ==
    /\ Transitioned
    /\ call.microsteps[1].transitions # <<>>
    /\ \A i \in 1..Len(call.microsteps[1].transitions) :
          call.microsteps[1].transitions[i].target = <<>>
\* C17: when the transitions selected for the event have no target, the
\* first microstep leaves the value and the configuration as they are,
\* exits and enters no node, and its action list is the actions of the
\* selected transitions, whose assigns give the context.
C17_Targetless ==
    TargetlessCall =>
        LET ms == call.microsteps[1] IN
        /\ stateValuesEqual(ms.value, prev.value)
        /\ Range(ms.configuration) = Range(prev.configuration)
        /\ ms.exitSet = <<>>
        /\ ms.entrySet = <<>>
        /\ ms.actions = selectedActions(ms.transitions)
        /\ ms.context = FoldAssigns(prev.context, selectedActions(ms.transitions))
\* a transition without target that runs an action, taken in a region of
\* a parallel state or with an assign that changes the context
C17_Witness ==
    /\ TargetlessCall
    /\ call.op = "transition"
    /\ call.microsteps[1].actions # <<>>
    /\ \/ \E n \in Range(prev.value) : type(n) = "parallel"
       \/ call.microsteps[1].context # prev.context

\* node n has a wildcard transition without guard
HasWildcard(n) ==
    \E i \in 1..Len(transitions[n]) :
        transitions[n][i].eventType = WILDCARD /\ transitions[n][i].cond = ""
\* C18: the candidates of a node for the null event are its transitions
\* with the empty event name, for any other event its transitions with
\* that name or the wildcard; so a null-event microstep never selects a
\* wildcard transition, and a microstep of another event, an active node
\* having a wildcard transition, selects a transition.
C18_WildcardNotNull ==
    /\ \A n \in Nodes :
          /\ getCandidates(n, NULL_EVENT) =
                SelectSeq(transitions[n], LAMBDA t : t.eventType = NULL_EVENT)
          /\ \A e \in Events[machine] :
                getCandidates(n, e) =
                    SelectSeq(transitions[n], LAMBDA t : t.eventType \in {e, WILDCARD})
    /\ \A k \in 1..Len(call.microsteps) :
          LET ms == call.microsteps[k] IN
          /\ \A i \in 1..Len(ms.transitions) :
                ms.transitions[i].eventType =
                    IF ms.event = NULL_EVENT THEN NULL_EVENT
                    ELSE IF ms.transitions[i].eventType = WILDCARD THEN WILDCARD
                    ELSE ms.event
          /\ (Transitioned /\ ms.event # NULL_EVENT
                /\ \E n \in Range(ValueBefore(k)) : HasWildcard(n))
                => ms.transitions # <<>>
\* a null-event microstep in a state whose active node has a wildcard
\* transition and an eventless transition whose guard fails: no transition
\* is taken
C18_Witness ==
    /\ call.op = "transition"
    /\ \E k \in 2..Len(call.microsteps) :
          /\ call.microsteps[k].event = NULL_EVENT
          /\ call.microsteps[k].transitions = <<>>
          /\ \E n \in Range(ValueBefore(k)) : HasWildcard(n) /\ transient(n)

\* the domain of a transition: the nearest compound ancestor of its source
\* that contains all its targets (the machine when there is none)
Domain(t) ==
    LET above == SelectSeq(ancestors(t.source),
                    LAMBDA d : /\ type(d) = "compound"
                               /\ \A x \in Range(t.target) : isDescendant(x, d))
    IN  IF above = <<>> THEN machine ELSE above[1]
\* the nodes a transition with targets leaves, among the active ones
ExitSetOf(t, active) ==
    IF t.target = <<>> THEN {} ELSE {n \in active : isDescendant(n, Domain(t))}
Conflict(t1, t2, active) == ExitSetOf(t1, active) \cap ExitSetOf(t2, active) # {}
\* C19: a microstep never takes two transitions that conflict (whose exit
\* sets intersect): of the transitions the regions of a parallel state
\* select, the one whose source comes first in document order is taken,
\* the others are discarded, their actions are not emitted and their
\* targets are not entered.
C19_NoConflict ==
    (Transitioned /\ ~call.exhausted) =>
        \A k \in 1..Len(call.microsteps) :
            LET ms == call.microsteps[k] IN
            \A i, j \in 1..Len(ms.transitions) :
                i < j => ~Conflict(ms.transitions[i], ms.transitions[j],
                                   Range(ValueBefore(k)))

\* microstep k of the last call took several transitions, no two of which
\* conflict
SeveralRegions(k) ==
    LET ms == call.microsteps[k] IN
    /\ Len(ms.transitions) >= 2
    /\ \A i, j \in 1..Len(ms.transitions) :
          i < j => ~Conflict(ms.transitions[i], ms.transitions[j],
                             Range(ValueBefore(k)))
\* C20: when a microstep takes the transitions of several regions of a
\* parallel state, none conflicting with another, every region with an
\* enabled transition has its transition taken, the value after the
\* microstep holds the targets of all of them, the transitions and their
\* actions come in ascending document order of their sources, and the
\* entry actions in ascending document order of the entered nodes.
C20_AllRegions ==
    (Transitioned /\ ~call.exhausted) =>
        \A k \in 1..Len(call.microsteps) :
            SeveralRegions(k) =>
                LET ms == call.microsteps[k]
                    active == Range(ValueBefore(k))
                    context == ContextBefore(k)
                IN  /\ \A n \in active :
                          (isLeafNode(n) /\ WrittenEnabled(n, ms.event, context) # <<>>)
                              => \E i \in 1..Len(ms.transitions) :
                                    ms.transitions[i].source = n
                    /\ \A i \in 1..Len(ms.transitions) :
                          \A x \in Range(ms.transitions[i].target) :
                              type(x) # "history" => has(ms.value, x)
                    /\ \A i, j \in 1..Len(ms.transitions) :
                          i < j => order[ms.transitions[i].source]
                                      < order[ms.transitions[j].source]
                    /\ SelectSeq(ms.actions, LAMBDA a : Phase(a) = 1)
                          = selectedActions(ms.transitions)
                    /\ \A i, j \in 1..Len(ms.actions) :
                          (i < j /\ IsEntry(ms.actions[i]) /\ IsEntry(ms.actions[j]))
                              => order[EntryNode(ms.actions[i])]
                                    <= order[EntryNode(ms.actions[j])]

\* the transitions that are internal and whose targets are the source or
\* nodes below it
InternalBelow(t) ==
    /\ t.internal
    /\ t.target # <<>>
    /\ \A x \in Range(t.target) :
          type(x) # "history" /\ (x = t.source \/ isDescendant(x, t.source))
\* the leaves that the targets of t stand for (no target being a history
\* node)
TargetLeaves(t) == Range(flatten(Map(t.target, initialStateNodes)))
\* C21: a microstep that takes an internal transition whose targets are the
\* source or below it neither exits nor enters the source, emits none of
\* the source's exit and entry actions and leaves the source active; when
\* the target leaves are active already, nothing is exited or entered and
\* the value is the one before the microstep.
C21_InternalKeepsSource ==
    (Transitioned /\ ~call.exhausted) =>
        \A k \in 1..Len(call.microsteps) :
            \A t \in Range(call.microsteps[k].transitions) :
                InternalBelow(t) =>
                    LET ms == call.microsteps[k] IN
                    /\ ~has(ms.exitSet, t.source)
                    /\ ~has(ms.entrySet, t.source)
                    /\ \A a \in Range(exitActionsOf(t.source))
                                \cup Range(entryActionsOf(t.source)) :
                          ~has(ms.actions, a)
                    /\ t.source = machine \/ has(ms.value, t.source)
                    /\ (Len(ms.transitions) = 1
                        /\ TargetLeaves(t) \subseteq Range(ValueBefore(k)))
                          => /\ ms.exitSet = <<>>
                             /\ ms.entrySet = <<>>
                             /\ stateValuesEqual(ms.value, ValueBefore(k))
\* an internal transition to a child that is not active is taken (HOLD in
\* red.walk), and one whose target leaves are active (POWER_OUTAGE in
\* red.walk)
C21_Witness ==
    /\ Transitioned /\ ~call.exhausted
    /\ \E t \in Range(call.microsteps[1].transitions) :
          /\ InternalBelow(t)
          /\ exitActionsOf(t.source) # <<>>
          /\ entryActionsOf(t.source) # <<>>
          /\ \/ call.microsteps[1].value # ValueBefore(1)
             \/ /\ TargetLeaves(t) \subseteq Range(ValueBefore(1))
                /\ call.microsteps[1].actions # <<>>

\* the least common compound ancestor of a transition's source and targets:
\* the nearest proper ancestor of the source that is a compound node (or
\* the root) and a proper ancestor of every target
LCCA(t) ==
    With(SelectSeq(ancestors(t.source), LAMBDA d :
            /\ type(d) = "compound" \/ d = machine
            /\ \A x \in Range(t.target) : isDescendant(x, d)),
         LAMBDA common : common[1])
\* the microsteps of the last call that take one transition, an external
\* one with targets
ExternalStep(k) ==
    /\ Len(call.microsteps[k].transitions) = 1
    /\ call.microsteps[k].transitions[1].target # <<>>
    /\ ~call.microsteps[k].transitions[1].internal
\* C22: a microstep that takes one external transition exits exactly the
\* nodes that were active below the least common compound ancestor d of the
\* source and the targets, and enters exactly the nodes that are active
\* below d afterwards, the targets among them; the source of a
\* self-transition and an ancestor that is the target are exited and entered.
C22_ExternalSets ==
    (Transitioned /\ ~call.exhausted) =>
        \A k \in 1..Len(call.microsteps) :
            ExternalStep(k) =>
                LET ms == call.microsteps[k]
                    t == ms.transitions[1]
                    d == LCCA(t)
                IN  /\ Range(ms.exitSet)
                          = {n \in Range(ValueBefore(k)) : isDescendant(n, d)}
                    /\ Range(ms.entrySet)
                          = {n \in Range(ms.value) : isDescendant(n, d)}
                    /\ \A x \in Range(t.target) :
                          type(x) # "history" => has(ms.entrySet, x)

\* the transitions written in the config of its source that t comes from
Written(t) ==
    {c \in Range(idMap[t.source].on) :
        /\ c.event = t.eventType /\ c.cond = t.cond
        /\ c.target = t.target /\ c.actions = t.actions}
\* C23: a transition that a call takes and that does not declare `internal`
\* is internal exactly when it has no target or every one of its targets is
\* written with the leading delimiter.
C23_InternalDefault ==
    Transitioned =>
        \A k \in 1..Len(call.microsteps) :
            \A t \in Range(call.microsteps[k].transitions) :
                \A c \in Written(t) :
                    c.internal = "unset" =>
                        (t.internal <=> (c.target = <<>>
                                         \/ \A i \in 1..Len(c.rel) : c.rel[i]))

\* every region of the parallel node n has an active final child in value v
AllRegionsFinal(n, v) ==
    \A r \in Range(getChildren(n)) :
        type(r) # "history" =>
            \E x \in Range(v) : parent(x) = r /\ type(x) = "final"
\* a microstep after microstep k of the last call handles the event e
ProcessedAfter(k, e) ==
    \E j \in (k + 1)..Len(call.microsteps) : call.microsteps[j].event = e
\* a microstep after microstep k takes a transition of node n for the event e
TakenAfter(k, e, n) ==
    \E j \in (k + 1)..Len(call.microsteps) :
        /\ call.microsteps[j].event = e
        /\ call.microsteps[j].took
        /\ \E t \in Range(call.microsteps[j].transitions) : t.source = n
EnteredBy(n) ==
    \E k \in 1..Len(call.microsteps) :
        call.microsteps[k].took /\ has(call.microsteps[k].entrySet, n)
ExitedBy(n) ==
    \E k \in 1..Len(call.microsteps) :
        call.microsteps[k].took /\ has(call.microsteps[k].exitSet, n)
\* C25: for a node n with a delayed transition of delay D, the state that a
\* call returns holds the send action of the event xstate.after(D)#n with
\* delay D when the call entered n, and the cancel action of that event when
\* the call exited n; n has a transition for the event to the configured
\* target. This holds from the first call on the machine on.
C25_DelayedSendCancel ==
    (call.op \in {"initialState", "transition", "transitionFromValue"}
        /\ ~call.exhausted) =>
        \A n \in Nodes : \A i \in 1..Len(idMap[n].after) :
            LET D == idMap[n].after[i].delay
                eventType == after(D, n)
            IN  /\ EnteredBy(n) => has(state.actions, send(eventType, D))
                /\ ExitedBy(n) => has(state.actions, cancel(eventType))
                /\ \E t \in Range(transitions[n]) :
                      /\ t.eventType = eventType
                      /\ t.target = <<idMap[n].after[i].target>>

\* some state node of the machine declares a transition for the event e,
\* by its name or by the wildcard
Declared(e) ==
    \E n \in Nodes : \E t \in Range(transitions[n]) :
        t.eventType = e \/ (t.eventType = WILDCARD /\ e # NULL_EVENT)
\* the built-in events that the calls of the model meet: the done events
BuiltIn(e) == \E n \in Nodes : e = done(n)
\* the last call was a call of transition
TransitionCalled ==
    call.op \in {"transition", "transitionFromValue", "throw"}
UnknownEventThrown == call.op = "throw" /\ call.error = "does not accept event"
GuardErrorThrown == call.op = "throw" /\ call.error = "Unable to evaluate guard"
\* C27: a call of transition in which the selection of a microstep reaches
\* a guard that throws (or has no implementation) throws, and the State that
\* was passed to the call is then exactly as it was before the call.
C27_GuardThrows ==
    /\ []((Transitioned /\ ~call.exhausted) =>
            \A k \in 1..Len(call.microsteps) :
                \A n \in Range(ValueBefore(k)) :
                    isLeafNode(n) =>
                        ~guardThrown(getCandidates(n, call.microsteps[k].event),
                                     ContextBefore(k)))
    /\ [][(call'.op = "throw" /\ call'.error = "Unable to evaluate guard")
            => state' = state]_vars

\* the StateValue invariant of a value v relative to node n: one child of
\* every compound node, every region of every parallel node, nothing else
FullValue(n, v) ==
    /\ \A x \in Range(v) : parent(x) = n \/ has(v, parent(x))
    /\ \A i, j \in 1..Len(v) : v[i] = v[j] => i = j
    /\ \A m \in {n} \cup Range(v) :
          LET chosen == {c \in Range(getChildren(m)) : has(v, c)}
              regions == {c \in Range(getChildren(m)) : type(c) # "history"}
          IN  /\ type(m) = "compound" => Cardinality(chosen) = 1
              /\ type(m) = "parallel" => chosen = regions
              /\ chosen \subseteq regions
\* C28: resolve expands a partial state value to a full one: the value it
\* returns satisfies the StateValue invariant, holds every node of the value
\* passed and, where nothing was chosen, the initial children; a full value
\* is returned as it is, and resolving the result again returns the result.
C28_Resolve ==
    resolved.node # NoNode =>
        /\ FullValue(resolved.node, resolved.value)
        /\ Range(resolved.given) \subseteq Range(resolved.value)
        /\ \A m \in {resolved.node} \cup Range(resolved.value) :
              (type(m) = "compound"
                  /\ \A c \in Range(getChildren(m)) : ~has(resolved.given, c))
                 => has(resolved.value, idMap[m].initial)
        /\ FullValue(resolved.node, resolved.given)
              => stateValuesEqual(resolved.value, resolved.given)
        /\ resolve(resolved.node, resolved.value) = resolved.value
\* resolve was given a value with a region missing and a compound node
\* without a chosen child
C28_Witness ==
    /\ resolved.node # NoNode
    /\ resolved.given # <<>>
    /\ \E m \in Range(resolved.given) :
          /\ type(m) = "parallel"
          /\ \E c \in Range(getChildren(m)) : ~has(resolved.given, c)
    /\ \E m \in Range(resolved.given) :
          /\ type(m) = "compound"
          /\ \A c \in Range(getChildren(m)) : ~has(resolved.given, c)

\* C29: on the counter machine, after n INC events applied in sequence from
\* the initial state the count of the context is n and the value is still
\* `active`, and every state returned for an INC has changed = true.
C29_Counter ==
    (machine = "counter" /\ status = "running") =>
        /\ state.context.count = sent
        /\ state.value = <<"active">>
        /\ (call.op \in {"transition", "transitionFromValue"} /\ call.event = "INC")
              => state.changed = "true"
\* several INC events have been applied, the last call being one of them
C29_Witness ==
    /\ machine = "counter"
    /\ sent = MaxCount
    /\ call.op = "transition"
    /\ call.event = "INC"

\* C30: the state a transition call returns is the state after all the
\* eventless and raised events of the macrostep have been processed: its
\* value and context are those of the last microstep, every raised event
\* and, after a microstep that ends in a transient node, the null event have
\* been handled by a later microstep of the call; and its history is the
\* state the call was given, never the state of a microstep in between.
C30_Atomic ==
    (Transitioned /\ ~call.exhausted) =>
        /\ state.history = disposeHistory(HistoryOf(prev))
        /\ call.microsteps # <<>>
        /\ state.value = call.microsteps[Len(call.microsteps)].value
        /\ state.context = call.microsteps[Len(call.microsteps)].context
        /\ \A k \in 1..Len(call.microsteps) :
              /\ \A e \in Range(call.microsteps[k].raised) : ProcessedAfter(k, e)
              /\ (call.microsteps[k].took
                    /\ isTransient(getStateNodes(machine, call.microsteps[k].value)))
                   => ProcessedAfter(k, NULL_EVENT)
\* a macrostep of three microsteps or more, one of them for a raised event,
\* that goes through a value which is neither the value it was given nor
\* the value it returns
C30_Witness ==
    /\ call.op = "transition"
    /\ ~call.exhausted
    /\ Len(call.microsteps) >= 3
    /\ state.value # prev.value
    /\ \E k \in 1..(Len(call.microsteps) - 1) :
          /\ call.microsteps[k].value # prev.value
          /\ call.microsteps[k].value # state.value
    /\ \E k \in 2..Len(call.microsteps) :
          call.microsteps[k].event # NULL_EVENT /\ call.microsteps[k].took

\* C31: the chain of previous states of a returned state has length at most
\* one: the history of the state, when there is one, has no history of its
\* own, after any sequence of calls, transitions that change nothing and
\* macrosteps with internal events included.
C31_HistoryCapped ==
    status = "running" => ~state.history.chained
\* the second of two transition calls: the state it was given had a history;
\* it took no transition, or it went through internal events
C31_Witness ==
    /\ call.op = "transition"
    /\ prev.history.exists
    /\ state.history.exists
    /\ ~call.microsteps[1].took
C31_WitnessInternal ==
    /\ call.op = "transition"
    /\ prev.history.exists
    /\ state.history.exists
    /\ Len(call.microsteps) >= 3

\* the delimiter-joined path of node x from below the root
RECURSIVE PathString(_)
PathString(x) ==
    IF parent(x) = machine THEN x ELSE PathString(parent(x)) \o "." \o x
\* C32: toStrings returns exactly the delimiter-joined paths of the leaf
\* state nodes of the state value: one string for every active leaf node
\* and no string for a compound or parallel node that has an active child.
C32_LeafPaths ==
    strings # <<>> =>
        /\ Range(strings) = {PathString(x) : x \in {y \in Range(state.value) : isLeafNode(y)}}
        /\ \A i, j \in 1..Len(strings) : strings[i] = strings[j] => i = j
\* the rest of C32: the path of every active leaf node is returned, once,
\* and every string returned is the path of an active node
C32_AllLeaves ==
    strings # <<>> =>
        /\ \A x \in Range(state.value) :
              isLeafNode(x) => has(strings, PathString(x))
        /\ Range(strings) \subseteq {PathString(x) : x \in Range(state.value)}
        /\ \A i, j \in 1..Len(strings) : strings[i] = strings[j] => i = j

\* C33: every call of transition terminates: after finitely many microsteps
\* no eventless transition is taken, no raised event is left, and a state
\* is returned.
C33_Terminates == ~call.exhausted
\* the rest of C33: on the machines without an eventless or raise cycle
\* every call ends, and so does the macrostep of an eventless transition
\* that leads to a state without one (HOP)
C33_TerminatesWithoutCycle ==
    /\ machine # "loop" => ~call.exhausted
    /\ (machine = "loop" /\ call.event \in {"HOP", "UNKNOWN", initEvent})
          => ~call.exhausted
\* in a macrostep that does not end every microstep takes a transition and,
\* after the first one, is for the event and ends in the value of the one
\* two before it
C33_Diverges ==
    call.exhausted =>
        /\ Len(call.microsteps) > MaxMicrosteps
        /\ \A k \in 1..Len(call.microsteps) : call.microsteps[k].took
        /\ \A k \in 4..Len(call.microsteps) :
              /\ call.microsteps[k].event = call.microsteps[k - 2].event
              /\ call.microsteps[k].value = call.microsteps[k - 2].value

\* the places of the last call's microsteps where the event e is raised
RaisedAt(e) ==
    {<<k, i>> \in (1..Len(call.microsteps)) \X (1..8) :
        i <= Len(call.microsteps[k].raised) /\ call.microsteps[k].raised[i] = e}
\* the microsteps after the first that handle the event e
HandledAt(e) ==
    {k \in 2..Len(call.microsteps) : call.microsteps[k].event = e}
\* a microstep of the last call completes the parallel node P
Completes(P) ==
    \E k \in 1..Len(call.microsteps) :
        /\ AllRegionsFinal(P, call.microsteps[k].value)
        /\ ~AllRegionsFinal(P, ValueBefore(k))
\* C34: when a parallel state P becomes completed during a macrostep, the
\* event done.state.P is raised exactly once in that macrostep, also when
\* two or more regions enter their final states in the same microstep; it
\* is handled once, and a transition listening for it is taken once.
C34_DoneOnce ==
    (call.op \in {"initialState", "transition", "transitionFromValue"}
        /\ ~call.exhausted) =>
        \A P \in {n \in Nodes : type(n) = "parallel"} :
            Completes(P) =>
                /\ Cardinality(RaisedAt(done(P))) = 1
                /\ Cardinality(HandledAt(done(P))) = 1
\* the rest of C34: the done event of a completed parallel state is raised
\* and handled, once when a single region entered its final state, and the
\* onDone transition of the parallel state is taken once
C34_DoneOncePerRegion ==
    (call.op \in {"initialState", "transition", "transitionFromValue"}
        /\ ~call.exhausted) =>
        \A P \in {n \in Nodes : type(n) = "parallel"} :
            Completes(P) =>
                /\ Cardinality(RaisedAt(done(P))) >= 1
                /\ Cardinality(HandledAt(done(P))) = Cardinality(RaisedAt(done(P)))
                /\ Cardinality({k \in HandledAt(done(P)) :
                        \E t \in Range(call.microsteps[k].transitions) :
                            t.source = P}) = 1
                /\ (\E k \in 1..Len(call.microsteps) :
                       Cardinality({f \in Range(call.microsteps[k].entrySet) :
                                       type(f) = "final"}) >= 2)
                   \/ Cardinality(RaisedAt(done(P))) = 1

\* the activities map marks the activity a as started
Started(a) == a \in DOMAIN state.activities /\ state.activities[a]
\* C35: after any sequence of transition calls from the initial state the
\* activities map of the returned state marks an activity as started
\* exactly when the node that declares it is in the configuration of the
\* returned state.
C35_Activities ==
    (status = "running" /\ ~call.exhausted) =>
        \A n \in Nodes :
            \A a \in Range(idMap[n].activities) :
                Started(a) <=> has(state.configuration, n)
\* the rest of C35: on the machines where no call takes two transitions
\* with intersecting exit sets the activities map follows the configuration
C35_ActivitiesWithoutConflict ==
    (status = "running" /\ ~call.exhausted /\ machine # "w") =>
        \A n \in Nodes :
            \A a \in Range(idMap[n].activities) :
                Started(a) <=> has(state.configuration, n)

\* what an action of the canonical list becomes in the emitted list when it
\* is resolved against the context
ResolvedAgainst(a, context) ==
    CASE a.type = "xstate.assign" -> <<>>
      [] a.type = "xstate.raise" -> <<>>
      [] a.type = "xstate.log" -> <<[a EXCEPT !.value = evaluate(a.name, context)]>>
      [] a.type = "xstate.send" /\ a.name # "" ->
            <<[a EXCEPT !.delay = evaluate(a.name, context)]>>
      [] a.type = "xstate.pure" ->
            SelectSeq(pureGet(a.name, context), LAMBDA x : x.type # "xstate.raise")
      [] OTHER -> <<a>>
\* the emitted actions of microstep k of the last call, were they resolved
\* against the context after all the assigns of that microstep
ResolvedAfterAssigns(k) ==
    IF call.microsteps[k].took
    THEN flatten(Map(call.microsteps[k].actions,
                     LAMBDA a : ResolvedAgainst(a, ContextBefore(k + 1))))
    ELSE <<>>
\* C36: within a microstep the Send, Log and Pure actions are resolved
\* against the context obtained after all the assign actions of that
\* microstep, whether they come before or after the assigns in the action
\* list, and the non-assign actions keep the order of the canonical list.
C36_ResolvedAfterAssigns ==
    (Transitioned /\ ~call.exhausted) =>
        state.actions =
            flatten([k \in 1..Len(call.microsteps) |-> ResolvedAfterAssigns(k)])
\* a microstep whose list holds a Log action before an assign and a Send
\* and a Pure action after it, the assigns changing the context
C36_Witness ==
    /\ call.op = "transition"
    /\ ~call.exhausted
    /\ ContextBefore(2) # prev.context
    /\ \E i, j, m, l \in 1..Len(call.microsteps[1].actions) :
          /\ i < j /\ j < m /\ m < l
          /\ call.microsteps[1].actions[i].type = "xstate.log"
          /\ call.microsteps[1].actions[j].type = "xstate.assign"
          /\ call.microsteps[1].actions[m].type = "xstate.pure"
          /\ call.microsteps[1].actions[l].type = "xstate.send"
    /\ \E i \in 1..Len(state.actions) :
          /\ state.actions[i].type = "xstate.log"
          /\ state.actions[i].value = ContextBefore(2).count


\* the entries of one kind in what a call of a method of the service did
LogOf(entries, kind) == SelectSeq(entries, LAMBDA x : x.kind = kind)
\* the sends that the service accepted during the call, in order
Accepted(entries) == LogOf(entries, "send")
\* the accepted sends replace the state one after the other: the first one
\* starts from `from`, each one from what the one before produced, and each
\* produces machine.transition(state, e)
Replaces(from, sends) ==
    \A k \in 1..Len(sends) :
        /\ sends[k].from = (IF k = 1 THEN from ELSE sends[k - 1].state)
        /\ sends[k].state = fsmTransition(sends[k].from, sends[k].event)

\* C37: send(e) has an effect only while the service is running: before
\* start() and after stop() it leaves the state of the service unchanged,
\* executes no action and notifies no listener; while running, each send
\* replaces the state by machine.transition(state, e), and the service is
\* left in the state that the last accepted send produced.
C37_SendOnlyRunning ==
    [][effects'.op = "send" =>
          IF service.status # "running"
          THEN service' = service /\ effects'.log = <<>>
          ELSE /\ Accepted(effects'.log) # <<>>
               /\ Accepted(effects'.log)[1].event = effects'.event
               /\ Replaces(service.state, Accepted(effects'.log))
               /\ service'.state =
                    Accepted(effects'.log)[Len(Accepted(effects'.log))].state
               /\ service'.status = "running"]_vars
\* a send after stop() on a service that had changed state, and a send
\* before start() with a listener subscribed, both without effect
C37_Witness ==
    /\ effects.op = "send"
    /\ effects.log = <<>>
    /\ \/ service.status = "stopped" /\ service.state.value # "inactive"
       \/ service.status = "notStarted" /\ service.listeners # <<>>
\* a send while running that changed the state
C37_WitnessRunning ==
    /\ effects.op = "send"
    /\ service.status = "running"
    /\ Len(effects.log) > 1
    /\ effects.log[1].from.value # effects.log[1].state.value


\* the states in a sequence of entries
StatesOf(entries) == [k \in 1..Len(entries) |-> entries[k].state]
\* the states that a listener was handed during the call, in order
HandedTo(entries, listener) ==
    StatesOf(SelectSeq(entries, LAMBDA x : x.kind = "listener" /\ x.who = listener))
\* the listeners subscribed during the whole call
Subscribed == {l \in Listeners : has(service.listeners, l) /\ has(service'.listeners, l)}
\* every action of a produced state that has an exec was executed, with
\* that state's context and that send's event, before a listener was
\* handed that state
ExecutedBeforeNotified(entries) ==
    \A k \in 1..Len(entries) :
        entries[k].kind = "send" =>
            /\ \A a \in 1..Len(entries[k].state.actions) :
                  HasExec(entries[k].state.actions[a]) =>
                      \E x \in k + 1..Len(entries) :
                          /\ entries[x].kind = "exec"
                          /\ entries[x].who = entries[k].state.actions[a].type
                          /\ entries[x].state = entries[k].state
                          /\ entries[x].event = entries[k].event
            /\ \A n \in k + 1..Len(entries) :
                  (entries[n].kind = "listener" /\ entries[n].state = entries[k].state
                     /\ \A j \in k + 1..n : entries[j].kind # "send") =>
                      \A a \in 1..Len(entries[k].state.actions) :
                          HasExec(entries[k].state.actions[a]) =>
                              \E x \in k + 1..n :
                                  /\ entries[x].kind = "exec"
                                  /\ entries[x].who = entries[k].state.actions[a].type
                                  /\ entries[x].state = entries[k].state
\* a send during which an action or a listener called send
Reentrant(entries) == Len(Accepted(entries)) > 1

\* C38: while running, each accepted send notifies every subscribed listener
\* exactly once with the state produced by that send, after that state's
\* actions were executed, and each listener observes the states in the
\* order in which they were produced, also when an action or a listener
\* calls send during a send: what a listener is handed during a call of
\* send is the sequence of the states that the call produced.
C38_NotifiedOnceInOrder ==
    [][(effects'.op = "send" /\ service.status = "running") =>
          /\ \A l \in Subscribed :
                HandedTo(effects'.log, l) = StatesOf(Accepted(effects'.log))
          /\ ExecutedBeforeNotified(effects'.log)]_vars
\* C38, the sends during which nothing calls send: every subscribed
\* listener is handed the produced state once, after its actions.
C38_NotifiedOnce ==
    [][(effects'.op = "send" /\ service.status = "running"
          /\ ~Reentrant(effects'.log)) =>
          /\ \A l \in Subscribed :
                HandedTo(effects'.log, l) = StatesOf(Accepted(effects'.log))
          /\ ExecutedBeforeNotified(effects'.log)]_vars
\* C38, the order of the actions: also with re-entrant sends every action
\* of a produced state is executed, with that state and that send's event
C38_ActionsExecuted ==
    [][(effects'.op = "send" /\ service.status = "running") =>
          \A k \in 1..Len(effects'.log) :
              effects'.log[k].kind = "send" =>
                  \A a \in 1..Len(effects'.log[k].state.actions) :
                      HasExec(effects'.log[k].state.actions[a]) =>
                          \E x \in k + 1..Len(effects'.log) :
                              /\ effects'.log[x].kind = "exec"
                              /\ effects'.log[x].who = effects'.log[k].state.actions[a].type
                              /\ effects'.log[x].state = effects'.log[k].state]_vars


\* what the config lists: the transitions for an event in a state, and the
\* positions of those whose cond holds on a context
ListedFor(value, eventType) ==
    IF eventType \in DOMAIN fsmConfig.states[value].on
    THEN fsmConfig.states[value].on[eventType] ELSE <<>>
HoldingIn(value, eventType, context) ==
    {i \in 1..Len(ListedFor(value, eventType)) :
        LET cond == ListedFor(value, eventType)[i].cond
        IN  \/ cond = ""
            \/ cond = "ltMax" /\ context.count < MaxCount}
\* the properties that an assign of the config writes, and what each of its
\* assigners returns on a context
Writes(assignment) ==
    CASE assignment = "inc" -> {"count", "last"}
      [] assignment \in {"mark", "stamp"} -> {"last"}
      [] assignment = "reset" -> {"count", "last"}
      [] OTHER -> {}
Assigner(assignment, key, context) ==
    CASE assignment = "inc" /\ key = "count" -> context.count + 1
      [] assignment = "inc" /\ key = "last" -> context.count
      [] assignment = "mark" -> context.count
      [] assignment = "stamp" -> context.last + 10
      [] assignment = "reset" /\ key = "count" -> 0
      [] assignment = "reset" /\ key = "last" -> context.count
\* the context after the first k actions of a list: every assigner of one
\* assign sees the context before that assign
RECURSIVE ContextAfter(_, _, _)
ContextAfter(context, listing, k) ==
    IF k = 0 THEN context
    ELSE LET before == ContextAfter(context, listing, k - 1)
         IN  IF listing[k].type # ASSIGN_ACTION THEN before
             ELSE [key \in {"count", "last"} |->
                     IF key \in Writes(listing[k].assignment)
                     THEN Assigner(listing[k].assignment, key, before)
                     ELSE before[key]]
\* the state that the claim gives for an event in a state
Expected(from, eventType) ==
    IF HoldingIn(from.value, eventType, from.context) = {}
    THEN [value |-> from.value, context |-> from.context, actions |-> <<>>,
          changed |-> "false"]
    ELSE LET first == CHOOSE i \in HoldingIn(from.value, eventType, from.context) :
                         \A j \in HoldingIn(from.value, eventType, from.context) : i <= j
             taken == ListedFor(from.value, eventType)[first]
             target == IF taken.target = "" THEN from.value ELSE taken.target
             listing == fsmConfig.states[from.value].exit \o taken.actions
                           \o fsmConfig.states[target].entry
             kept == SelectSeq(listing, LAMBDA a : a.type # ASSIGN_ACTION)
         IN  [value |-> target,
              context |-> ContextAfter(from.context, listing, Len(listing)),
              actions |-> kept,
              changed |-> IF \/ target # from.value
                             \/ kept # <<>>
                             \/ Len(kept) < Len(listing)
                          THEN "true" ELSE "false"]

\* C39: machine.transition(state, e) takes the first transition listed for
\* e in the current state whose cond holds on the current context, and
\* returns the state unchanged (changed = false, no actions) when there is
\* none; for the taken transition the actions are the exit actions of the
\* current state, the transition's actions and the entry actions of the
\* target without the assigns, the context is the fold of the assigns in
\* that order, a transition without target targets the current state, and
\* changed tells whether the target differs, an action is emitted or an
\* assign ran: every state that a send produced is the one so described.
C39_Transition ==
    \A k \in 1..Len(effects.log) :
        effects.log[k].kind = "send" =>
            effects.log[k].state = Expected(effects.log[k].from, effects.log[k].event)
\* TOGGLE in inactive with a count above 0 and below the maximum: the first,
\* guarded transition is taken, with the assign of the exit, the assign of
\* the transition (count and last from the same context) and the assign of
\* the entry
C39_Witness ==
    /\ effects.op = "send"
    /\ effects.log # <<>>
    /\ effects.event = "TOGGLE"
    /\ effects.log[1].from.value = "inactive"
    /\ effects.log[1].from.context.count > 0
    /\ effects.log[1].state.value = "active"
    /\ effects.log[1].state.context.last = effects.log[1].from.context.count + 10
\* the guard of the first transition fails and the second one is taken
C39_WitnessSecond ==
    /\ effects.op = "send"
    /\ effects.log # <<>>
    /\ effects.event = "TOGGLE"
    /\ effects.log[1].from.value = "inactive"
    /\ effects.log[1].state.value = "pending"
    /\ effects.log[1].state.changed = "true"
\* a transition without target: exit and entry actions of the current
\* state around the transition's action
C39_WitnessTargetless ==
    /\ effects.op = "send"
    /\ effects.log # <<>>
    /\ effects.event = "PING"
    /\ effects.log[1].state.value = "inactive"
    /\ Len(effects.log[1].state.actions) = 3
    /\ effects.log[1].from.context.last # effects.log[1].from.context.count
    /\ effects.log[1].state.context.last = effects.log[1].from.context.count
\* a transition without target and without actions in a state without exit
\* and entry actions: taken, and changed is false; only an assign: true
C39_WitnessUnchanged ==
    /\ effects.op = "send"
    /\ effects.log # <<>>
    /\ effects.log[1].from.value = "pending"
    /\ \/ effects.event = "STAY" /\ effects.log[1].state.changed = "false"
       \/ effects.event = "QUIET" /\ effects.log[1].state.changed = "true"
              /\ effects.log[1].state.context = effects.log[1].from.context


\* the calls of a listener in what a call of a method of the service did
CallsOf(entries, listener) ==
    SelectSeq(entries, LAMBDA x : x.kind = "listener" /\ x.who = listener)
\* the actions of a state that have an exec, executed in order with an event
ExecutedOf(fsmState, eventType) ==
    [k \in 1..Len(SelectSeq(fsmState.actions, HasExec)) |->
        Executed(SelectSeq(fsmState.actions, HasExec)[k], fsmState, eventType)]

\* C40: subscribe(listener) calls the listener immediately, once, with the
\* current state, whatever the status of the service; a listener that is
\* not subscribed (never subscribed, or unsubscribed by its unsubscribe(),
\* or removed by stop()) is not called by any later call, until it is
\* subscribed again, and within a call not after it unsubscribed; stop()
\* sets the status to stopped and removes every listener; start() sets the
\* status to running and executes the actions of the current state with
\* the xstate.init event, leaving state and listeners as they were.
C40_SubscribeStartStop ==
    [][/\ effects'.op = "subscribe" =>
            /\ effects'.log # <<>>
            /\ effects'.log[1] = Called(effects'.who, service.state)
            /\ Accepted(effects'.log) = <<>> =>
                  /\ effects'.log = <<Called(effects'.who, service.state)>>
                  /\ service'.listeners = add(service.listeners, effects'.who)
                  /\ service'.state = service.state
            /\ service'.status = service.status
       /\ effects'.op = "unsubscribe" =>
            /\ ~has(service'.listeners, effects'.who)
            /\ effects'.log = <<>>
       /\ \A l \in Listeners :
            (~has(service.listeners, l)
               /\ ~(effects'.op = "subscribe" /\ effects'.who = l)) =>
                CallsOf(effects'.log, l) = <<>>
       /\ \A k \in 1..Len(effects'.log) :
            effects'.log[k].kind = "delete" =>
                \A n \in k + 1..Len(effects'.log) :
                    ~(effects'.log[n].kind = "listener"
                        /\ effects'.log[n].who = effects'.log[k].who)
       /\ effects'.op = "stop" =>
            /\ service'.status = "stopped"
            /\ service'.listeners = <<>>
            /\ service'.state = service.state
            /\ effects'.log = <<>>
       /\ effects'.op = "start" =>
            /\ service'.status = "running"
            /\ service'.listeners = service.listeners
            /\ service'.state = service.state
            /\ effects'.log = ExecutedOf(service.state, INIT_EVENT)]_vars
\* stop() on a service with listeners, in a state that a send had produced
C40_Witness ==
    /\ effects.op = "stop"
    /\ effects.found # <<>>
    /\ service.listeners = <<>>
    /\ service.status = "stopped"
    /\ service.state.changed = "true"
\* subscribe on a service that is not running
C40_WitnessSubscribe ==
    /\ effects.op = "subscribe"
    /\ service.status # "running"
    /\ effects.log = <<Called(effects.who, service.state)>>
\* start() after stop(), on a state that a send had produced: its actions
\* are executed again, with the xstate.init event
C40_WitnessStart ==
    /\ effects.op = "start"
    /\ service.state.changed = "true"
    /\ Len(effects.log) > 1
    /\ effects.log[1].event = INIT_EVENT
\* a listener that unsubscribed during a send, and a send after it
C40_WitnessUnsubscribed ==
    /\ effects.op = "send"
    /\ \E k \in 1..Len(effects.log) : effects.log[k].kind = "delete"

=============================================================================
